---- MODULE Spec2Model ----
(***************************************************************************)
(* The persistence layer of ai-wingman: DatabaseManager.get_session        *)
(* (connection.py) and the operations of operations.py, over a store with  *)
(* the unique constraints of models.py.  The backing store is PostgreSQL   *)
(* at its default isolation level (READ COMMITTED): a session sees the     *)
(* committed rows and its own uncommitted ones.  Every await of the code   *)
(* is one step, so scopes interleave at the database round trips.          *)
(***************************************************************************)
EXTENDS Integers, Sequences, FiniteSets, TLC

\* ---------------------------------------------------------------- bounds
NumScopes == 2          \* get_session scopes (logical flows) in one run
MaxUuid == 3            \* uuid4 values drawn in one run
MaxStored == 3          \* rows of the table a similarity search runs on
MaxLimit == 2           \* largest `limit` of a similarity search
MaxClock == 3           \* the clock's last reading
MaxTotal == 8           \* largest total_messages a run counts up to
MaxBatch == 2           \* longest list given to bulk_create_messages
MaxCount == 4           \* largest message_count a run counts up to

\* ------------------------------------------------------------- constants
Scopes == 1..NumScopes
ExtIds == {"m1", "m2"}              \* slack_message_id values
Users == {"U1", "U2"}               \* user_id values
Channels == {"C1", "C2"}            \* channel_id values
None == "None"                      \* Python None where a str is optional
NoRow == [id |-> 0]                 \* scalar_one_or_none() finding no row
NoVec == <<>>                       \* embedding IS NULL

Exceptions == {"IntegrityError", "PendingRollbackError", "ValueError",
               "DataError", "OperationalError", "ArgumentError",
               "RuntimeError", "CommitFailed", "RollbackFailed", "TypeError"}
BaseExceptions == {"CancelledError"}

VARIABLES
    engine,           \* DatabaseManager._engine: 0 is None, else the engine
    session_factory,  \* DatabaseManager._session_factory: 0 is None
    engines_created,  \* engines that create_engine has made so far
    factories_built,  \* calls of async_sessionmaker so far
    pool,             \* idle connections in the engine's pool
    bind,             \* bind[s]: the engine of session s and its connection
    slack_messages,   \* committed rows of ai_wingman.slack_messages
    user_contexts,    \* committed rows of ai_wingman.user_contexts
    conversation_threads, \* committed rows of ai_wingman.conversation_threads
    clock,            \* what datetime.now(timezone.utc) gives
    next_uuid,        \* the next value uuid4 gives
    pc,               \* pc[s]: where scope s stands in get_session
    tx,               \* tx[s]: the session's transaction: active | inactive
    pending,          \* pending[s]: rows flushed by s and not committed
    is_open,          \* is_open[s]: the session holds its connection
    exc,              \* exc[s]: the exception in flight ("none": none)
    body_exc,         \* body_exc[s]: the exception that left the body
    commits,          \* commits[s]: successful commits of scope s
    call,             \* call[s]: the call of s that spans two round trips
    ret               \* the last completed call: who, what, result

mgrVars == <<engine, session_factory, engines_created, factories_built, pool>>
dbVars == <<slack_messages, user_contexts, conversation_threads>>
vars == <<engine, session_factory, engines_created, factories_built, pool,
          bind, slack_messages,
          user_contexts, conversation_threads, clock, next_uuid, pc, tx,
          pending, is_open, exc, body_exc, commits, call, ret>>

NoPending == [msgs |-> {}, ctxs |-> {}, thrs |-> {}]

\* ------------------------------------------------------- the store's view
Ids(rows) == {r.id : r \in rows}

\* rows of `committed` as session s sees them: its own flushed versions win
Overlay(committed, own) == own \cup {r \in committed : r.id \notin Ids(own)}

VisibleMessages(s) == Overlay(slack_messages, pending[s].msgs)
VisibleContexts(s) == Overlay(user_contexts, pending[s].ctxs)
VisibleThreads(s) == Overlay(conversation_threads, pending[s].thrs)

\* rows another open transaction inserted and has not committed yet
ForeignInsertedMessages(s) ==
    UNION {{r \in pending[t].msgs : r.id \notin Ids(slack_messages)} :
           t \in Scopes \ {s}}
ForeignInsertedContexts(s) ==
    UNION {{r \in pending[t].ctxs : r.id \notin Ids(user_contexts)} :
           t \in Scopes \ {s}}

\* a row version another open transaction wrote: its row lock is held
LockedElsewhere(s, id) ==
    \E t \in Scopes \ {s} : id \in Ids(pending[t].msgs) \cup Ids(pending[t].ctxs)

\* what a call hands back: its value, or the exception it raised; sql is
\* the statement it sent to the session ("none": it sent none)
Returned(s, op, val, sql) ==
    [s |-> s, op |-> op, val |-> val, exc |-> "none", sql |-> sql]
Raised(s, op, e, sql) ==
    [s |-> s, op |-> op, val |-> 0, exc |-> e, sql |-> sql]

NoCall == [op |-> "none"]

\* a session that is not made yet: conn is none | pooled | detached
NoBind == [engine |-> 0, conn |-> "none"]

\* ------------------------------------------------------------------ Init
Init ==
    /\ engine = 0
    /\ session_factory = 0
    /\ engines_created = 0
    /\ factories_built = 0
    /\ pool = 0
    /\ bind = [s \in Scopes |-> NoBind]
    /\ slack_messages = {}
    /\ user_contexts = {}
    /\ conversation_threads = {}
    /\ clock = 1
    /\ next_uuid = 1
    /\ pc = [s \in Scopes |-> "init"]
    /\ tx = [s \in Scopes |-> "none"]
    /\ pending = [s \in Scopes |-> NoPending]
    /\ is_open = [s \in Scopes |-> FALSE]
    /\ exc = [s \in Scopes |-> "none"]
    /\ body_exc = [s \in Scopes |-> "none"]
    /\ commits = [s \in Scopes |-> 0]
    /\ call = [s \in Scopes |-> NoCall]
    /\ ret = Returned(0, "none", 0, "none")

\* ------------------------------------------------- DatabaseManager scope
\* the session_factory property without its `is None` test
BuildsFactory_always(factory) == TRUE

\* `if self._session_factory is None:` of the session_factory property
BuildsFactory(factory) == factory = 0

\* `async with self.session_factory() as session:` up to the yield: the
\* factory is built on first use, with the engine, which is made then if
\* there is none; the session is bound to the factory's engine and takes a
\* connection of its pool
Acquire(s) ==
    /\ pc[s] = "init"
    /\ engine' = IF BuildsFactory(session_factory) /\ engine = 0
                 THEN engines_created + 1 ELSE engine
    /\ engines_created' = IF BuildsFactory(session_factory) /\ engine = 0
                          THEN engines_created + 1 ELSE engines_created
    /\ session_factory' = IF BuildsFactory(session_factory) THEN engine'
                          ELSE session_factory
    /\ factories_built' = IF BuildsFactory(session_factory)
                          THEN factories_built + 1 ELSE factories_built
    /\ pool' = IF pool > 0 THEN pool - 1 ELSE pool
    /\ bind' = [bind EXCEPT ![s] = [engine |-> session_factory',
                                    conn |-> "pooled"]]
    /\ pc' = [pc EXCEPT ![s] = "body"]
    /\ tx' = [tx EXCEPT ![s] = "active"]
    /\ is_open' = [is_open EXCEPT ![s] = TRUE]
    /\ UNCHANGED <<dbVars, next_uuid, clock, pending, exc, body_exc, commits,
                   call, ret>>

\* the body of the scope ends without an exception (an early return too)
BodyReturn(s) ==
    /\ pc[s] = "body"
    /\ pc' = [pc EXCEPT ![s] = "commit"]
    /\ UNCHANGED <<mgrVars, dbVars, next_uuid, clock, tx, pending, is_open, bind, exc,
                   body_exc, commits, call, ret>>

\* the caller's own code raises inside the scope, or the flow is cancelled
\* at an await of the body
BodyRaise(s, e) ==
    /\ pc[s] \in {"body", "in_call"}
    /\ pc[s] = "in_call" => e \in BaseExceptions
    /\ pc' = [pc EXCEPT ![s] = "raising"]
    /\ exc' = [exc EXCEPT ![s] = e]
    /\ UNCHANGED <<mgrVars, dbVars, next_uuid, clock, tx, pending, is_open, bind, body_exc,
                   commits, call, ret>>

\* the caller handles the exception of a call inside the scope and goes on
BodyCatch(s) ==
    /\ pc[s] = "raising"
    /\ exc[s] \in Exceptions
    /\ pc' = [pc EXCEPT ![s] = "body"]
    /\ exc' = [exc EXCEPT ![s] = "none"]
    /\ UNCHANGED <<mgrVars, dbVars, next_uuid, clock, tx, pending, is_open, bind, body_exc,
                   commits, call, ret>>

\* the exception leaves the body: `except Exception` takes an Exception,
\* anything else goes straight to `finally`
BodyPropagate(s) ==
    /\ pc[s] = "raising"
    /\ pc' = [pc EXCEPT ![s] = IF exc[s] \in Exceptions THEN "except"
                                ELSE "finally"]
    /\ body_exc' = [body_exc EXCEPT ![s] = exc[s]]
    /\ UNCHANGED <<mgrVars, dbVars, next_uuid, clock, tx, pending, is_open, bind, exc,
                   commits, call, ret>>

\* `await session.commit()`: an inactive transaction cannot commit; the
\* backend may fail the commit; otherwise the flushed rows become visible
CommitOutcomes(s) ==
    IF tx[s] = "inactive" THEN {"PendingRollbackError"}
    ELSE {"none", "CommitFailed"}

\* a table after a commit that does not apply what the session flushed
AfterCommit_notApplied(committed, own) == committed

\* a table after session.commit() succeeds
AfterCommit(committed, own) == Overlay(committed, own)

Commit(s, outcome) ==
    /\ pc[s] = "commit"
    /\ outcome \in CommitOutcomes(s)
    /\ IF outcome = "none"
       THEN /\ slack_messages' = AfterCommit(slack_messages, pending[s].msgs)
            /\ user_contexts' = AfterCommit(user_contexts, pending[s].ctxs)
            /\ conversation_threads' =
                   AfterCommit(conversation_threads, pending[s].thrs)
            /\ pending' = [pending EXCEPT ![s] = NoPending]
            /\ commits' = [commits EXCEPT ![s] = @ + 1]
            /\ pc' = [pc EXCEPT ![s] = "finally"]
            /\ UNCHANGED exc
       ELSE /\ exc' = [exc EXCEPT ![s] = outcome]
            /\ pc' = [pc EXCEPT ![s] = "except"]
            /\ UNCHANGED <<dbVars, pending, commits>>
    /\ UNCHANGED <<mgrVars, next_uuid, clock, tx, is_open, bind, body_exc, call, ret>>

\* the exception that leaves `except Exception as e: await
\* session.rollback(); logger.error(...); raise`: a rollback that raises
\* replaces the one in flight, which is then neither logged nor re-raised
AfterRollback(e, outcome) == IF outcome = "none" THEN e ELSE outcome

\* where `raise` would lead if session.close() stood after the try
\* statement and not in its finally clause
AfterRaise_noFinally == "exited"

\* where the `raise` of the except clause leads: to the finally clause
AfterRaise == "finally"

Rollback(s, outcome) ==
    /\ pc[s] = "except"
    /\ outcome \in {"none", "RollbackFailed"}
    /\ pending' = [pending EXCEPT ![s] = NoPending]
    /\ tx' = [tx EXCEPT ![s] = IF outcome = "none" THEN "active" ELSE @]
    /\ exc' = [exc EXCEPT ![s] = AfterRollback(@, outcome)]
    /\ pc' = [pc EXCEPT ![s] = AfterRaise]
    /\ UNCHANGED <<mgrVars, dbVars, next_uuid, clock, is_open, bind, body_exc, commits,
                   call, ret>>

\* `finally: await session.close()`, then the factory's own __aexit__: what
\* is not committed is discarded and the connection goes back to the pool
\* it came from, unless that pool was disposed of meanwhile
Close(s) ==
    /\ pc[s] = "finally"
    /\ pending' = [pending EXCEPT ![s] = NoPending]
    /\ tx' = [tx EXCEPT ![s] = "none"]
    /\ is_open' = [is_open EXCEPT ![s] = FALSE]
    /\ pool' = IF bind[s].conn = "pooled" THEN pool + 1 ELSE pool
    /\ bind' = [bind EXCEPT ![s].conn = "none"]
    /\ pc' = [pc EXCEPT ![s] = "exited"]
    /\ UNCHANGED <<engine, session_factory, engines_created, factories_built,
                   dbVars, next_uuid, clock, exc, body_exc, commits, call,
                   ret>>

\* create_engine raises (create_async_engine refuses its arguments) while
\* the factory is being built for scope s: _engine and _session_factory
\* stay None and no session is made
create_engine_fails(s) ==
    /\ pc[s] = "init"
    /\ session_factory = 0 /\ engine = 0
    /\ exc' = [exc EXCEPT ![s] = "ArgumentError"]
    /\ pc' = [pc EXCEPT ![s] = "exited"]
    /\ UNCHANGED <<mgrVars, dbVars, next_uuid, clock, tx, pending, is_open,
                   bind, body_exc, commits, call, ret>>

\* ---------------------------------------- DatabaseManager.health_check
\* health_check is called: the scope of flow s is the one it opens
health_check_begin(s) ==
    /\ pc[s] = "init"
    /\ call[s] = NoCall
    /\ call' = [call EXCEPT ![s] = [op |-> "health_check",
                                    result |-> "running"]]
    /\ UNCHANGED <<mgrVars, dbVars, next_uuid, clock, pc, tx, pending, is_open,
                   bind, exc, body_exc, commits, ret>>

\* the body of its scope: `result = await session.execute(text("SELECT 1"));
\* result.scalar()`, which the backend may fail and at which the flow may be
\* cancelled
health_check_query(s, outcome) ==
    /\ pc[s] = "body"
    /\ call[s].op = "health_check"
    /\ outcome \in {"none", "OperationalError", "CancelledError"}
    /\ IF outcome = "none"
       THEN /\ pc' = [pc EXCEPT ![s] = "commit"]
            /\ ret' = Returned(s, "health_check", 1, "SELECT")
            /\ UNCHANGED exc
       ELSE /\ pc' = [pc EXCEPT ![s] = "raising"]
            /\ exc' = [exc EXCEPT ![s] = outcome]
            /\ ret' = Raised(s, "health_check", outcome, "SELECT")
    /\ UNCHANGED <<mgrVars, dbVars, next_uuid, clock, tx, pending, is_open,
                   bind, body_exc, commits, call>>

\* what health_check does with an exception that left its scope, or with
\* none, if its handler were `except BaseException`
HealthResult_catchesAll(e) == IF e = "none" THEN "True" ELSE "False"

\* `return True` after the scope, `except Exception: return False`; what
\* is no Exception leaves health_check
HealthResult(e) ==
    IF e = "none" THEN "True"
    ELSE IF e \in Exceptions THEN "False"
    ELSE e

\* its scope has exited, or could not be entered: it returns or raises
health_check_return(s) ==
    /\ pc[s] = "exited"
    /\ call[s].op = "health_check"
    /\ call[s].result = "running"
    /\ call' = [call EXCEPT ![s].result = HealthResult(exc[s])]
    /\ UNCHANGED <<mgrVars, dbVars, next_uuid, clock, pc, tx, pending, is_open,
                   bind, exc, body_exc, commits, ret>>

\* ------------------------------------------------ DatabaseManager.close
\* the idle connections left by a dispose that closes one of them
PoolAfterDispose_closesOne(idle) == IF idle > 0 THEN idle - 1 ELSE 0

\* the idle connections left by engine.dispose(): none
PoolAfterDispose(idle) == 0

\* `if self._engine: await self._engine.dispose()`: the pool's idle
\* connections are closed and the engine gets a new pool; a connection that
\* a session holds is no longer the engine's and is not pooled when released
close ==
    /\ IF engine # 0
       THEN /\ pool' = PoolAfterDispose(pool)
            /\ bind' = [s \in Scopes |->
                          IF bind[s].conn = "pooled"
                          THEN [bind[s] EXCEPT !.conn = "detached"]
                          ELSE bind[s]]
       ELSE UNCHANGED <<pool, bind>>
    /\ UNCHANGED <<engine, session_factory, engines_created, factories_built,
                   dbVars, next_uuid, clock, pc, tx, pending, is_open, exc,
                   body_exc, commits, call, ret>>

\* --------------------------------------------- what every operation does
\* a call of the operations module that raises e: a failed flush has rolled
\* the session's transaction back and left it inactive
CallRaises(s, op, e, flushFailed) ==
    /\ pc' = [pc EXCEPT ![s] = "raising"]
    /\ exc' = [exc EXCEPT ![s] = e]
    /\ pending' = [pending EXCEPT ![s] = IF flushFailed THEN NoPending ELSE @]
    /\ tx' = [tx EXCEPT ![s] = IF flushFailed THEN "inactive" ELSE @]
    /\ ret' = Raised(s, op, e, IF flushFailed THEN "INSERT" ELSE "none")

\* the same without the unique index
InsertFault_noUniqueIndex(s, taken) ==
    IF tx[s] = "inactive" THEN "PendingRollbackError" ELSE "none"

\* the exception of a flushed INSERT (`taken`: its unique key is in a row the
\* session sees): session.flush() on an inactive transaction raises, and so
\* does the unique index
InsertFault(s, taken) ==
    IF tx[s] = "inactive" THEN "PendingRollbackError"
    ELSE IF taken THEN "IntegrityError"
    ELSE "none"

\* ----------------------------------------------------- message operations
\* a message that is returned before the flush has given it its defaults
NewMessage_notFlushed(id, ext, ch, u, ts, emb) ==
    [id |-> 0, slack_message_id |-> ext, channel_id |-> ch, user_id |-> u,
     slack_timestamp |-> ts, embedding |-> emb, is_deleted |-> FALSE]

NewMessage(id, ext, ch, u, ts, emb) ==
    [id |-> id, slack_message_id |-> ext, channel_id |-> ch, user_id |-> u,
     slack_timestamp |-> ts, embedding |-> emb, is_deleted |-> FALSE]

\* a unique index on slack_message_id that leaves soft-deleted rows out
KeyTaken_liveOnly(rows, ext) ==
    \E r \in rows : r.slack_message_id = ext /\ ~r.is_deleted

\* the unique index on slack_message_id: a row of `rows` has the key
KeyTaken(rows, ext) == \E r \in rows : r.slack_message_id = ext

\* create_slack_message: session.add, then the flush of one INSERT.  An
\* INSERT whose key another open transaction has inserted waits for it.
create_slack_message(s, ext, ch, u, ts, emb) ==
    /\ pc[s] = "body"
    /\ next_uuid <= MaxUuid
    /\ \A r \in ForeignInsertedMessages(s) : r.slack_message_id # ext
    /\ LET message == NewMessage(next_uuid, ext, ch, u, ts, emb)
           fault == InsertFault(s, KeyTaken(VisibleMessages(s), ext))
       IN  IF fault = "none"
           THEN /\ pending' = [pending EXCEPT ![s].msgs = @ \cup {message}]
                /\ next_uuid' = next_uuid + 1
                /\ ret' = Returned(s, "create_slack_message", message, "INSERT")
                /\ UNCHANGED <<pc, tx, exc>>
           ELSE /\ CallRaises(s, "create_slack_message", fault,
                              fault = "IntegrityError")
                /\ next_uuid' = IF fault = "IntegrityError" THEN next_uuid + 1
                                ELSE next_uuid
    /\ UNCHANGED <<mgrVars, dbVars, clock, is_open, bind, body_exc, commits, call>>

\* a batch check that compares each key with the stored rows only
BatchTaken_storedOnly(rows, exts) ==
    \E i \in 1..Len(exts) : KeyTaken(rows, exts[i])

\* the unique index over the INSERTs of one flush: a key of the batch is
\* in a row of `rows` or twice in the batch
BatchTaken(rows, exts) ==
    \/ \E i \in 1..Len(exts) : KeyTaken(rows, exts[i])
    \/ \E i, j \in 1..Len(exts) : i # j /\ exts[i] = exts[j]

\* a batch of which nothing is handed to the session
BatchMessages_notStaged(first_id, exts, ch, u, ts) == {}

\* [SlackMessage(**msg_data) for msg_data in messages] as the flush leaves
\* them, the i-th with the i-th uuid drawn
BatchMessages(first_id, exts, ch, u, ts) ==
    {NewMessage(first_id + i - 1, exts[i], ch, u, ts, NoVec) :
        i \in 1..Len(exts)}

\* bulk_create_messages: session.add_all, then one flush of all the
\* INSERTs, which waits while another open transaction has inserted one of
\* the keys; exts are the slack_message_id values of `messages`, in order
bulk_create_messages(s, exts, ch, u, ts) ==
    /\ pc[s] = "body"
    /\ next_uuid + Len(exts) - 1 <= MaxUuid
    /\ \A r \in ForeignInsertedMessages(s), i \in 1..Len(exts) :
           r.slack_message_id # exts[i]
    /\ LET message_objects == BatchMessages(next_uuid, exts, ch, u, ts)
           fault == IF exts = <<>> THEN "none"
                    ELSE InsertFault(s, BatchTaken(VisibleMessages(s), exts))
       IN  /\ call' = [call EXCEPT ![s] =
                         [op |-> "bulk_create_messages", messages |-> exts,
                          first_id |-> next_uuid, raised |-> fault]]
           /\ IF fault = "none"
              THEN /\ pending' = [pending EXCEPT
                                    ![s].msgs = @ \cup message_objects]
                   /\ next_uuid' = next_uuid + Len(exts)
                   /\ ret' = Returned(s, "bulk_create_messages", Len(exts),
                                      "INSERT")
                   /\ UNCHANGED <<pc, tx, exc>>
              ELSE /\ CallRaises(s, "bulk_create_messages", fault,
                                 fault = "IntegrityError")
                   /\ next_uuid' = IF fault = "IntegrityError"
                                   THEN next_uuid + Len(exts) ELSE next_uuid
    /\ UNCHANGED <<mgrVars, dbVars, clock, is_open, bind, body_exc, commits>>

\* Python's truth value of an Optional[str] argument
Truthy(x) == x # None /\ x # ""

\* result.scalar_one_or_none() over rows selected by a unique column
ScalarOneOrNone(rows) == IF rows = {} THEN NoRow ELSE CHOOSE r \in rows : TRUE

\* the same select with the filter on is_deleted that the list operations add
MessageById_liveOnly(rows, message_id) ==
    ScalarOneOrNone({r \in rows : r.id = message_id /\ ~r.is_deleted})

\* select(SlackMessage).where(SlackMessage.id == message_id)
MessageById(rows, message_id) ==
    ScalarOneOrNone({r \in rows : r.id = message_id})

\* select(func.count(SlackMessage.id)) with the filters get_message_count adds
CountMessages(rows, user_id, channel_id, include_deleted) ==
    Cardinality({r \in rows :
        /\ Truthy(user_id) => r.user_id = user_id
        /\ Truthy(channel_id) => r.channel_id = channel_id
        /\ ~include_deleted => ~r.is_deleted})

\* a DELETE in the place of the UPDATE: no version of the row is left
MarkDeleted_rowRemoved(rows, message_id) == {}

\* the same UPDATE with `is_deleted IS false` added to its WHERE clause
MarkDeleted_liveOnly(rows, message_id) ==
    {[r EXCEPT !.is_deleted = TRUE] :
        r \in {x \in rows : x.id = message_id /\ ~x.is_deleted}}

\* update(SlackMessage).where(SlackMessage.id == message_id)
\*     .values(is_deleted=True): the new versions of the rows it matches
MarkDeleted(rows, message_id) ==
    {[r EXCEPT !.is_deleted = TRUE] : r \in {x \in rows : x.id = message_id}}

\* a call that only reads: session.execute of one SELECT
Query(s, op, val) ==
    /\ pc[s] = "body"
    /\ IF tx[s] = "inactive"
       THEN CallRaises(s, op, "PendingRollbackError", FALSE)
       ELSE /\ ret' = Returned(s, op, val, "SELECT")
            /\ UNCHANGED <<pc, tx, exc, pending>>
    /\ UNCHANGED <<mgrVars, dbVars, next_uuid, clock, is_open, bind, body_exc, commits, call>>

get_slack_message_by_id(s, message_id) ==
    Query(s, "get_slack_message_by_id",
          MessageById(VisibleMessages(s), message_id))

get_message_count(s, user_id, channel_id, include_deleted) ==
    Query(s, "get_message_count",
          CountMessages(VisibleMessages(s), user_id, channel_id, include_deleted))

\* select(SlackMessage).where(SlackMessage.slack_message_id == slack_message_id)
MessageBySlackId(rows, slack_message_id) ==
    ScalarOneOrNone({r \in rows : r.slack_message_id = slack_message_id})

get_slack_message_by_slack_id(s, slack_message_id) ==
    Query(s, "get_slack_message_by_slack_id",
          MessageBySlackId(VisibleMessages(s), slack_message_id))

\* .limit(limit) on the rows in the order o
Truncate(o, limit) == SubSeq(o, 1, IF limit < Len(o) THEN limit ELSE Len(o))

\* every order of `rows` by ascending slack_timestamp
OrderByTimestamp_ascending(rows) ==
    {o \in [1..Cardinality(rows) -> rows] :
        /\ \A i, j \in DOMAIN o : i # j => o[i] # o[j]
        /\ \A i, j \in DOMAIN o :
               i < j => o[i].slack_timestamp <= o[j].slack_timestamp}

\* .order_by(SlackMessage.slack_timestamp.desc()): every order of `rows` the
\* backend may give, rows of one timestamp in any order
OrderByTimestamp(rows) ==
    {o \in [1..Cardinality(rows) -> rows] :
        /\ \A i, j \in DOMAIN o : i # j => o[i] # o[j]
        /\ \A i, j \in DOMAIN o :
               i < j => o[i].slack_timestamp >= o[j].slack_timestamp}

\* the lists get_messages_by_user may return
MessagesByUser(rows, user_id, limit, include_deleted) ==
    {Truncate(o, limit) :
        o \in OrderByTimestamp({r \in rows :
                 /\ r.user_id = user_id
                 /\ ~include_deleted => r.is_deleted = FALSE})}

\* the lists get_messages_by_channel may return
MessagesByChannel(rows, channel_id, limit, include_deleted) ==
    {Truncate(o, limit) :
        o \in OrderByTimestamp({r \in rows :
                 /\ r.channel_id = channel_id
                 /\ ~include_deleted => r.is_deleted = FALSE})}

\* a call that reads a list: session.execute of one SELECT, whose rows
\* `lists` gives in every order the backend may return them; args are the
\* call's arguments
ListQuery(s, args, lists) ==
    /\ pc[s] = "body"
    /\ call' = [call EXCEPT ![s] = args]
    /\ IF tx[s] = "inactive"
       THEN CallRaises(s, args.op, "PendingRollbackError", FALSE)
       ELSE /\ \E messages \in lists :
                   ret' = Returned(s, args.op, messages, "SELECT")
            /\ UNCHANGED <<pc, tx, exc, pending>>
    /\ UNCHANGED <<mgrVars, dbVars, next_uuid, clock, is_open, bind, body_exc,
                   commits>>

get_messages_by_user(s, user_id, limit, include_deleted) ==
    ListQuery(s, [op |-> "get_messages_by_user", key |-> user_id,
                  limit |-> limit, include_deleted |-> include_deleted],
              MessagesByUser(VisibleMessages(s), user_id, limit,
                             include_deleted))

get_messages_by_channel(s, channel_id, limit, include_deleted) ==
    ListQuery(s, [op |-> "get_messages_by_channel", key |-> channel_id,
                  limit |-> limit, include_deleted |-> include_deleted],
              MessagesByChannel(VisibleMessages(s), channel_id, limit,
                                include_deleted))

\* soft_delete_message: one UPDATE ... RETURNING id; an UPDATE of a row that
\* another open transaction has written waits for that transaction
soft_delete_message(s, message_id) ==
    /\ pc[s] = "body"
    /\ LET updated == MarkDeleted(VisibleMessages(s), message_id)
       IN  /\ updated # {} => ~LockedElsewhere(s, message_id)
           /\ IF tx[s] = "inactive"
              THEN CallRaises(s, "soft_delete_message", "PendingRollbackError",
                              FALSE)
              ELSE /\ pending' = [pending EXCEPT
                                    ![s].msgs = Overlay(@, updated)]
                   /\ ret' = Returned(s, "soft_delete_message", updated # {},
                                      "UPDATE")
                   /\ UNCHANGED <<pc, tx, exc>>
    /\ UNCHANGED <<mgrVars, dbVars, next_uuid, clock, is_open, bind, body_exc, commits, call>>

\* ------------------------------------------------ user context operations
NewContext(id, u) ==
    [id |-> id, user_id |-> u, total_messages |-> 0, first_message_at |-> 0,
     last_message_at |-> 0]

\* the same select comparing the internal id, which no user_id equals
ContextByUser_wrongColumn(rows, user_id) == NoRow

\* select(UserContext).where(UserContext.user_id == user_id)
ContextByUser(rows, user_id) ==
    ScalarOneOrNone({r \in rows : r.user_id = user_id})

get_user_context(s, user_id) ==
    Query(s, "get_user_context", ContextByUser(VisibleContexts(s), user_id))

\* the flush of one INSERT into user_contexts, for the call `op`
InsertContext(s, op, user_id) ==
    /\ \A r \in ForeignInsertedContexts(s) : r.user_id # user_id
    /\ LET context == NewContext(next_uuid, user_id)
           fault == InsertFault(s, \E r \in VisibleContexts(s) :
                                       r.user_id = user_id)
       IN  IF fault = "none"
           THEN /\ pending' = [pending EXCEPT ![s].ctxs = @ \cup {context}]
                /\ next_uuid' = next_uuid + 1
                /\ ret' = Returned(s, op, context, "INSERT")
                /\ pc' = [pc EXCEPT ![s] = "body"]
                /\ UNCHANGED <<tx, exc>>
           ELSE /\ CallRaises(s, op, fault, fault = "IntegrityError")
                /\ next_uuid' = IF fault = "IntegrityError" THEN next_uuid + 1
                                ELSE next_uuid
    /\ UNCHANGED <<mgrVars, dbVars, clock, is_open, bind, body_exc, commits>>

create_user_context(s, user_id) ==
    /\ pc[s] = "body"
    /\ next_uuid <= MaxUuid
    /\ InsertContext(s, "create_user_context", user_id)
    /\ UNCHANGED call

\* uuid4 values the calls in progress will still draw
Reserved ==
    Cardinality({t \in Scopes : /\ pc[t] = "in_call"
                                /\ call[t].op = "get_or_create_user_context"})

\* get_or_create_user_context up to its second await: get_user_context
\* found the row and it is returned, or found none and the INSERT is next
get_or_create_user_context_get(s, user_id) ==
    /\ pc[s] = "body"
    /\ LET context == ContextByUser(VisibleContexts(s), user_id)
       IN  IF tx[s] = "inactive"
           THEN /\ CallRaises(s, "get_or_create_user_context",
                              "PendingRollbackError", FALSE)
                /\ UNCHANGED call
           ELSE /\ call' = [call EXCEPT ![s] =
                              [op |-> "get_or_create_user_context",
                               user_id |-> user_id, context |-> context]]
                /\ IF context = NoRow
                   THEN /\ next_uuid + Reserved <= MaxUuid
                        /\ pc' = [pc EXCEPT ![s] = "in_call"]
                        /\ UNCHANGED ret
                   ELSE /\ ret' = Returned(s, "get_or_create_user_context",
                                           context, "SELECT")
                        /\ UNCHANGED pc
                /\ UNCHANGED <<tx, exc, pending>>
    /\ UNCHANGED <<mgrVars, dbVars, next_uuid, clock, is_open, bind, body_exc, commits>>

\* `if context is None: context = await create_user_context(...)`
get_or_create_user_context_create(s) ==
    /\ pc[s] = "in_call"
    /\ call[s].op = "get_or_create_user_context"
    /\ InsertContext(s, "get_or_create_user_context", call[s].user_id)
    /\ UNCHANGED call

\* ------------------------------------------ conversation thread operations
\* ConversationThread(thread_ts=..., channel_id=..., started_at=now) with
\* the defaults the flush gives it
NewThread(id, thread_ts, channel_id, now) ==
    [id |-> id, thread_ts |-> thread_ts, channel_id |-> channel_id,
     message_count |-> 0, started_at |-> now, last_activity_at |-> 0]

\* select(ConversationThread).where(ConversationThread.thread_ts == thread_ts)
ThreadByTs(rows, thread_ts) ==
    ScalarOneOrNone({r \in rows : r.thread_ts = thread_ts})

get_conversation_thread(s, thread_ts) ==
    Query(s, "get_conversation_thread",
          ThreadByTs(VisibleThreads(s), thread_ts))

\* ------------------------------------------------------------- the clock
\* time passes
Tick ==
    /\ clock < MaxClock
    /\ clock' = clock + 1
    /\ UNCHANGED <<mgrVars, dbVars, next_uuid, pc, tx, pending, is_open, bind, exc,
                   body_exc, commits, call, ret>>

\* the readings datetime.now() may give right after one that gave `now`
Later(now) == {n \in {now, now + 1} : n <= MaxClock}

\* the context after an update that sets first_message_at on every call
UpdatedStats_firstOverwritten(context, stored, increment_messages, now, later) ==
    [stored EXCEPT
        !.total_messages = context.total_messages + increment_messages,
        !.last_message_at = now,
        !.first_message_at = later]

\* the row after the UPDATE that flushes `context.total_messages +=
\* increment_messages; context.last_message_at = now; if
\* context.first_message_at is None: context.first_message_at = later`:
\* `context` is the object the select loaded, `stored` the row as the
\* session sees it at the flush, of which only the assigned columns are set
UpdatedStats(context, stored, increment_messages, now, later) ==
    [stored EXCEPT
        !.total_messages = context.total_messages + increment_messages,
        !.last_message_at = now,
        !.first_message_at = IF context.first_message_at = 0 THEN later
                              ELSE @]

\* update_user_context_stats up to its second await: get_user_context found
\* no row and None is returned, or found the row and the flush is next
update_user_context_stats_get(s, user_id, increment_messages) ==
    /\ pc[s] = "body"
    /\ LET context == ContextByUser(VisibleContexts(s), user_id)
       IN  IF tx[s] = "inactive"
           THEN /\ CallRaises(s, "update_user_context_stats",
                              "PendingRollbackError", FALSE)
                /\ UNCHANGED call
           ELSE /\ IF context = NoRow
                   THEN /\ ret' = Returned(s, "update_user_context_stats",
                                           NoRow, "SELECT")
                        /\ UNCHANGED <<pc, call>>
                   ELSE /\ context.total_messages + increment_messages
                               <= MaxTotal
                        /\ call' = [call EXCEPT ![s] =
                                      [op |-> "update_user_context_stats",
                                       user_id |-> user_id,
                                       increment_messages |-> increment_messages,
                                       context |-> context]]
                        /\ pc' = [pc EXCEPT ![s] = "in_call"]
                        /\ UNCHANGED ret
                /\ UNCHANGED <<tx, exc, pending>>
    /\ UNCHANGED <<mgrVars, dbVars, next_uuid, clock, is_open, bind, body_exc,
                   commits>>

\* the assignments and `await session.flush()`: one UPDATE of the row, which
\* waits while another open transaction holds a version of it
update_user_context_stats_flush(s) ==
    /\ pc[s] = "in_call"
    /\ call[s].op = "update_user_context_stats"
    /\ ~LockedElsewhere(s, call[s].context.id)
    /\ \E later \in Later(clock) :
          LET stored == CHOOSE r \in VisibleContexts(s) :
                            r.id = call[s].context.id
              context == UpdatedStats(call[s].context, stored,
                                      call[s].increment_messages, clock, later)
          IN  /\ call[s].context.first_message_at # 0 => later = clock
              /\ clock' = later
              /\ pending' = [pending EXCEPT ![s].ctxs = Overlay(@, {context})]
              /\ ret' = Returned(s, "update_user_context_stats", context,
                                 "UPDATE")
    /\ pc' = [pc EXCEPT ![s] = "body"]
    /\ call' = [call EXCEPT ![s] = NoCall]
    /\ UNCHANGED <<mgrVars, dbVars, next_uuid, tx, is_open, bind, exc, body_exc,
                   commits>>

\* ------------------------------------------------------ similarity search
\* an element of query_embedding: its Python type, for a number its value,
\* and for a float whether it is finite, nan, inf or -inf
Num(v) == [t |-> "int", v |-> v, fin |-> "finite"]
Flt(v) == [t |-> "float", v |-> v, fin |-> "finite"]
NotNum(type) == [t |-> type, v |-> 1, fin |-> "finite"]
\* float("nan"), float("inf"), float("-inf"): floats that are no finite number
NonFinite(which) == [t |-> "float", v |-> 0, fin |-> which]

\* isinstance(x, (int, float)): bool is a subclass of int
IsIntOrFloat(x) == x.t \in {"int", "float", "bool"}
IsBool(x) == x.t = "bool"

\* the element test without its `and not isinstance(x, bool)`
IsNumeric_boolPasses(x) == IsIntOrFloat(x)

\* isinstance(x, (int, float)) and not isinstance(x, bool)
IsNumeric(x) == IsIntOrFloat(x) /\ ~IsBool(x)

\* the ValueError of the two checks before the query text is built
EmbeddingFault(query_embedding) ==
    IF query_embedding = <<>> THEN "ValueError"
    ELSE IF ~(\A i \in 1..Len(query_embedding) : IsNumeric(query_embedding[i]))
         THEN "ValueError"
    ELSE "none"

\* f"[{','.join(map(str, query_embedding))}]": one literal for each element
EmbeddingStr(query_embedding) ==
    [i \in 1..Len(query_embedding) |->
        IF query_embedding[i].t \in {"int", "float"}
        THEN IF query_embedding[i].fin = "finite"
             THEN [lit |-> "number", v |-> query_embedding[i].v]
             ELSE [lit |-> query_embedding[i].fin, v |-> 0]
        ELSE [lit |-> "word", v |-> 0]]

\* '<embedding_str>'::vector as the backend reads it: the numbers, or no
\* vector when a literal is no finite number (pgvector refuses nan and
\* infinite elements as it refuses a word)
ParseVector(embedding_str) ==
    IF \A i \in 1..Len(embedding_str) : embedding_str[i].lit = "number"
    THEN [i \in 1..Len(embedding_str) |-> embedding_str[i].v]
    ELSE NoVec

\* pgvector's <=> on vectors of two dimensions with whole norms, in
\* hundredths: 100 * (1 - cos)
Dot(a, b) == a[1] * b[1] + a[2] * b[2]
Norm(a) == CHOOSE n \in 0..(Dot(a, a)) : n * n = Dot(a, a)
CosineDistance(a, b) == 100 - (100 * Dot(a, b)) \div (Norm(a) * Norm(b))
SimilarityTo(vec, r) == 100 - CosineDistance(r.embedding, vec)

\* the WHERE clause with its filters added as get_message_count adds them,
\* by `if user_id:`
WhereClause_truthyFilters(r, vec, threshold, user_id, channel_id) ==
    /\ r.is_deleted = FALSE
    /\ r.embedding # NoVec
    /\ SimilarityTo(vec, r) >= threshold
    /\ Truthy(user_id) => r.user_id = user_id
    /\ Truthy(channel_id) => r.channel_id = channel_id

\* the WHERE clause with every optional filter it is given
WhereClause(r, vec, threshold, user_id, channel_id) ==
    /\ r.is_deleted = FALSE
    /\ r.embedding # NoVec
    /\ SimilarityTo(vec, r) >= threshold
    /\ user_id # None => r.user_id = user_id
    /\ channel_id # None => r.channel_id = channel_id

\* ORDER BY sm.embedding <=> vec: every order of `rows` the backend may give
OrderByDistance(rows, vec) ==
    LET distance == [r \in rows |-> CosineDistance(r.embedding, vec)]
    IN  {o \in [1..Cardinality(rows) -> rows] :
            /\ \A i, j \in DOMAIN o : i # j => o[i] # o[j]
            /\ \A i, j \in DOMAIN o : i < j => distance[o[i]] <= distance[o[j]]}

\* LIMIT :limit
Limit(o, limit) == SubSeq(o, 1, IF limit < Len(o) THEN limit ELSE Len(o))

\* SlackMessage(id=row.id, ...) and float(row.similarity) for one row
RowToResult(row, vec) ==
    <<[id |-> row.id, slack_message_id |-> row.slack_message_id,
       channel_id |-> row.channel_id, user_id |-> row.user_id,
       slack_timestamp |-> row.slack_timestamp, embedding |-> row.embedding,
       is_deleted |-> row.is_deleted],
      SimilarityTo(vec, row)>>

\* every messages_with_scores the query may give on `rows`
SearchResults(rows, vec, threshold, limit, user_id, channel_id) ==
    LET hits == {r \in rows : WhereClause(r, vec, threshold, user_id, channel_id)}
    IN  {[i \in DOMAIN Limit(o, limit) |-> RowToResult(Limit(o, limit)[i], vec)] :
            o \in OrderByDistance(hits, vec)}

\* search_similar_messages: the two checks, then one SELECT whose text holds
\* embedding_str; a vector literal the backend cannot read makes
\* session.execute raise DataError, which the function lets through
search_similar_messages(s, query_embedding, similarity_threshold, limit,
                        user_id, channel_id) ==
    /\ pc[s] = "body"
    /\ call' = [call EXCEPT ![s] =
                  [op |-> "search_similar_messages",
                   query_embedding |-> query_embedding,
                   similarity_threshold |-> similarity_threshold,
                   limit |-> limit, user_id |-> user_id,
                   channel_id |-> channel_id]]
    /\ LET fault == EmbeddingFault(query_embedding)
           vec == ParseVector(EmbeddingStr(query_embedding))
       IN  IF fault # "none"
           THEN CallRaises(s, "search_similar_messages", fault, FALSE)
           ELSE IF tx[s] = "inactive"
           THEN CallRaises(s, "search_similar_messages",
                           "PendingRollbackError", FALSE)
           ELSE IF vec = NoVec
           THEN /\ pc' = [pc EXCEPT ![s] = "raising"]
                /\ exc' = [exc EXCEPT ![s] = "DataError"]
                /\ ret' = Raised(s, "search_similar_messages", "DataError",
                                 "SELECT")
                /\ UNCHANGED <<tx, pending>>
           ELSE /\ \E messages_with_scores \in
                        SearchResults(VisibleMessages(s), vec,
                                      similarity_threshold, limit, user_id,
                                      channel_id) :
                       ret' = Returned(s, "search_similar_messages",
                                       messages_with_scores, "SELECT")
                /\ UNCHANGED <<pc, tx, exc, pending>>
    /\ UNCHANGED <<mgrVars, dbVars, next_uuid, clock, is_open, bind, body_exc, commits>>

\* ------------------------------------------------------- specifications
\* get_session as the code runs it: every exit path of the scope
Scope(s) ==
    \/ Acquire(s)
    \/ BodyReturn(s)
    \/ \E e \in {"RuntimeError", "CancelledError"} : BodyRaise(s, e)
    \/ BodyCatch(s)
    \/ BodyPropagate(s)
    \/ \E o \in {"none", "CommitFailed", "PendingRollbackError"} : Commit(s, o)
    \/ \E o \in {"none", "RollbackFailed"} : Rollback(s, o)
    \/ Close(s)

\* scopes whose bodies create messages and soft-delete committed ones
Next ==
    \E s \in Scopes :
        \/ Scope(s)
        \/ \E ext \in ExtIds : create_slack_message(s, ext, "C1", "U1", 1, NoVec)
        \/ \E id \in Ids(slack_messages) : soft_delete_message(s, id)

Spec == Init /\ [][Next]_vars

\* scopes whose bodies create and soft-delete messages, found or not, and
\* whose callers may handle a call's exception; the backend never fails
NextMessages ==
    \E s \in Scopes :
        \/ Acquire(s)
        \/ BodyReturn(s)
        \/ BodyCatch(s)
        \/ BodyPropagate(s)
        \/ Commit(s, "none")
        \/ Commit(s, "PendingRollbackError")
        \/ Rollback(s, "none")
        \/ Close(s)
        \/ \E ext \in ExtIds : create_slack_message(s, ext, "C1", "U1", 1, NoVec)
        \/ \E id \in 1..MaxUuid : soft_delete_message(s, id)

SpecMessages == Init /\ [][NextMessages]_vars

\* scopes whose bodies get, create, and get-or-create user contexts, with
\* no fault but the unique index's
NextContexts ==
    \E s \in Scopes :
        \/ Acquire(s)
        \/ BodyReturn(s)
        \/ BodyPropagate(s)
        \/ Commit(s, "none")
        \/ Rollback(s, "none")
        \/ Close(s)
        \/ \E u \in Users : get_or_create_user_context_get(s, u)
        \/ get_or_create_user_context_create(s)

SpecContexts == Init /\ [][NextContexts]_vars
\* a table of MaxStored messages for one session to search: each row of
\* either owner and channel, without embedding, live with either vector, or
\* soft-deleted
SlackIds == <<"m1", "m2", "m3", "m4", "m5", "m6">>
StoredShapes ==
    {[user_id |-> k[1], channel_id |-> k[2], embedding |-> e[1],
      is_deleted |-> e[2]] :
        k \in {<<"U1", "C1">>, <<"", "C2">>},
        e \in {<<NoVec, FALSE>>, <<<<1, 0>>, FALSE>>, <<<<3, 4>>, FALSE>>,
               <<<<3, 4>>, TRUE>>}}
StoredRow(id, shape) ==
    [id |-> id, slack_message_id |-> SlackIds[id],
     channel_id |-> shape.channel_id, user_id |-> shape.user_id,
     slack_timestamp |-> id, embedding |-> shape.embedding,
     is_deleted |-> shape.is_deleted]

InitSearch ==
    /\ engine = 0
    /\ session_factory = 0
    /\ engines_created = 0
    /\ factories_built = 0
    /\ pool = 0
    /\ bind = [s \in Scopes |-> NoBind]
    /\ \E shapes \in [1..MaxStored -> StoredShapes] :
           slack_messages = {StoredRow(id, shapes[id]) : id \in 1..MaxStored}
    /\ user_contexts = {}
    /\ conversation_threads = {}
    /\ clock = 1
    /\ next_uuid = MaxStored + 1
    /\ pc = [s \in Scopes |-> "init"]
    /\ tx = [s \in Scopes |-> "none"]
    /\ pending = [s \in Scopes |-> NoPending]
    /\ is_open = [s \in Scopes |-> FALSE]
    /\ exc = [s \in Scopes |-> "none"]
    /\ body_exc = [s \in Scopes |-> "none"]
    /\ commits = [s \in Scopes |-> 0]
    /\ call = [s \in Scopes |-> NoCall]
    /\ ret = Returned(0, "none", 0, "none")

ValidQueries == {<<Num(1), Num(0)>>, <<Flt(4), Flt(3)>>}
NonFiniteQueries ==
    {<<NonFinite("nan"), Num(0)>>, <<Flt(4), NonFinite("inf")>>,
     <<NonFinite("-inf"), Flt(3)>>}
InvalidQueries ==
    {<<>>, <<NotNum("str")>>, <<NotNum("NoneType"), Num(0)>>,
     <<Num(1), NotNum("bool")>>, <<Flt(4), NotNum("str")>>}
Thresholds == {0, 90}
DefaultThreshold == 70   \* similarity_threshold: float = 0.7
DefaultLimit == 5        \* limit: int = 5

\* one session makes one similarity search on the table
NextSearch ==
    \/ Acquire(1)
    \/ /\ call[1] = NoCall
       /\ \E q \in ValidQueries, th \in Thresholds, limit \in 0..MaxLimit,
             u \in {None, "", "U1"}, c \in {None, "C1"} :
               search_similar_messages(1, q, th, limit, u, c)
    \/ /\ call[1] = NoCall
       /\ \E q \in InvalidQueries \cup NonFiniteQueries :
              search_similar_messages(1, q, DefaultThreshold, DefaultLimit,
                                      None, None)

SpecSearch == InitSearch /\ [][NextSearch]_vars

\* the table holds the fresh context of one user
InitStats ==
    /\ engine = 0
    /\ session_factory = 0
    /\ engines_created = 0
    /\ factories_built = 0
    /\ pool = 0
    /\ bind = [s \in Scopes |-> NoBind]
    /\ slack_messages = {}
    /\ user_contexts = {NewContext(1, "U1")}
    /\ conversation_threads = {}
    /\ clock = 1
    /\ next_uuid = 2
    /\ pc = [s \in Scopes |-> "init"]
    /\ tx = [s \in Scopes |-> "none"]
    /\ pending = [s \in Scopes |-> NoPending]
    /\ is_open = [s \in Scopes |-> FALSE]
    /\ exc = [s \in Scopes |-> "none"]
    /\ body_exc = [s \in Scopes |-> "none"]
    /\ commits = [s \in Scopes |-> 0]
    /\ call = [s \in Scopes |-> NoCall]
    /\ ret = Returned(0, "none", 0, "none")

\* scopes whose bodies update the statistics of that user and of one
\* without context, while time passes
Increments == {3, 5}
DefaultIncrement == 1    \* increment_messages: int = 1
NextStats ==
    \/ Tick
    \/ \E s \in Scopes :
        \/ Acquire(s)
        \/ BodyReturn(s)
        \/ Commit(s, "none")
        \/ Close(s)
        \/ \E n \in Increments : update_user_context_stats_get(s, "U1", n)
        \/ update_user_context_stats_get(s, "U2", DefaultIncrement)
        \/ update_user_context_stats_flush(s)

SpecStats == InitStats /\ [][NextStats]_vars

\* flows that open a scope of their own or call health_check, and calls of
\* close, in any order
NextManager ==
    \/ close
    \/ \E s \in Scopes :
        \/ Acquire(s)
        \/ create_engine_fails(s)
        \/ health_check_begin(s)
        \/ \E o \in {"none", "OperationalError", "CancelledError"} :
               health_check_query(s, o)
        \/ health_check_return(s)
        \/ call[s].op # "health_check" /\ BodyReturn(s)
        \/ /\ call[s].op # "health_check"
           /\ \E e \in {"RuntimeError", "CancelledError"} : BodyRaise(s, e)
        \/ BodyPropagate(s)
        \/ \E o \in {"none", "CommitFailed"} : Commit(s, o)
        \/ \E o \in {"none", "RollbackFailed"} : Rollback(s, o)
        \/ Close(s)

SpecManager == Init /\ [][NextManager]_vars

\* a table of MaxStored messages for one session to read: each row of
\* either owner and channel, of either of two timestamps, live or
\* soft-deleted; one user has a context and one thread is stored
QueryShapes ==
    {[user_id |-> k[1], channel_id |-> k[2], slack_timestamp |-> ts,
      is_deleted |-> d] :
        k \in {<<"U1", "C1">>, <<"", "C2">>}, ts \in {1, 2}, d \in BOOLEAN}
QueryRow(id, shape) ==
    [id |-> id, slack_message_id |-> SlackIds[id],
     channel_id |-> shape.channel_id, user_id |-> shape.user_id,
     slack_timestamp |-> shape.slack_timestamp, embedding |-> NoVec,
     is_deleted |-> shape.is_deleted]

InitQueries ==
    /\ engine = 0
    /\ session_factory = 0
    /\ engines_created = 0
    /\ factories_built = 0
    /\ pool = 0
    /\ bind = [s \in Scopes |-> NoBind]
    /\ \E shapes \in [1..MaxStored -> QueryShapes] :
           slack_messages = {QueryRow(id, shapes[id]) : id \in 1..MaxStored}
    /\ user_contexts = {NewContext(MaxStored + 1, "U1")}
    /\ conversation_threads = {NewThread(MaxStored + 2, 1, "C1", 1)}
    /\ clock = 1
    /\ next_uuid = MaxStored + 3
    /\ pc = [s \in Scopes |-> "init"]
    /\ tx = [s \in Scopes |-> "none"]
    /\ pending = [s \in Scopes |-> NoPending]
    /\ is_open = [s \in Scopes |-> FALSE]
    /\ exc = [s \in Scopes |-> "none"]
    /\ body_exc = [s \in Scopes |-> "none"]
    /\ commits = [s \in Scopes |-> 0]
    /\ call = [s \in Scopes |-> NoCall]
    /\ ret = Returned(0, "none", 0, "none")

UserKeys == {"U1", "U2", ""}
ChannelKeys == {"C1", "C2"}
UserFilters == {None, "", "U1"}
ChannelFilters == {None, "", "C1"}
StoredIds == 1..(MaxStored + 1)
ThreadKeys == {1, 2}

\* one session makes one read of the table
NoReadYet == ret.op = "none"
NextQueries ==
    \/ Acquire(1)
    \/ NoReadYet /\ \E u \in UserKeys, limit \in 0..MaxLimit, d \in BOOLEAN :
                       get_messages_by_user(1, u, limit, d)
    \/ NoReadYet /\ \E c \in ChannelKeys, limit \in 0..MaxLimit, d \in BOOLEAN :
                       get_messages_by_channel(1, c, limit, d)
    \/ NoReadYet /\ \E u \in UserFilters, c \in ChannelFilters, d \in BOOLEAN :
                       get_message_count(1, u, c, d)
    \/ NoReadYet /\ \E id \in StoredIds : get_slack_message_by_id(1, id)
    \/ NoReadYet /\ \E id \in StoredIds :
                       get_slack_message_by_slack_id(1, SlackIds[id])
    \/ NoReadYet /\ \E u \in Users : get_user_context(1, u)
    \/ NoReadYet /\ \E ts \in ThreadKeys : get_conversation_thread(1, ts)

SpecQueries == InitQueries /\ [][NextQueries]_vars

\* the lists of at most MaxBatch external ids
Batches == UNION {[1..n -> ExtIds] : n \in 0..MaxBatch}

\* no other scope is between its entry and its exit
Alone(s) == \A t \in Scopes \ {s} : pc[t] \in {"init", "exited"}

\* scopes run one after another; their bodies create messages one by one
\* and in batches and soft-delete, with no fault but the unique index's
NextBulk ==
    \E s \in Scopes :
        \/ Alone(s) /\ Acquire(s)
        \/ BodyReturn(s)
        \/ BodyPropagate(s)
        \/ Commit(s, "none")
        \/ Rollback(s, "none")
        \/ Close(s)
        \/ \E ext \in ExtIds : create_slack_message(s, ext, "C1", "U1", 1, NoVec)
        \/ \E exts \in Batches : bulk_create_messages(s, exts, "C1", "U1", 1)
        \/ \E id \in Ids(VisibleMessages(s)) : soft_delete_message(s, id)

SpecBulk == Init /\ [][NextBulk]_vars

\* ------------------------------------- cancellation inside get_session
\* the committed table when the flow is cancelled at `await
\* session.commit()` and the backend applies one row of the transaction
CancelledCommit_partial(committed, own, applied) ==
    IF applied /\ own # {}
    THEN Overlay(committed, {CHOOSE r \in own : TRUE})
    ELSE committed

\* the committed table when the flow is cancelled at `await
\* session.commit()`: the COMMIT had reached the backend (applied) or not
CancelledCommit(committed, own, applied) ==
    IF applied THEN AfterCommit(committed, own) ELSE committed

\* the flow is cancelled while `await session.commit()` is suspended:
\* CancelledError is no Exception, so the except clause is passed over
CommitCancelled(s, applied) ==
    /\ pc[s] = "commit"
    /\ tx[s] = "active"
    /\ slack_messages' = CancelledCommit(slack_messages, pending[s].msgs,
                                         applied)
    /\ user_contexts' = CancelledCommit(user_contexts, pending[s].ctxs,
                                        applied)
    /\ conversation_threads' =
           CancelledCommit(conversation_threads, pending[s].thrs, applied)
    /\ pending' = [pending EXCEPT ![s] = IF applied THEN NoPending ELSE @]
    /\ commits' = [commits EXCEPT ![s] = IF applied THEN @ + 1 ELSE @]
    /\ exc' = [exc EXCEPT ![s] = "CancelledError"]
    /\ pc' = [pc EXCEPT ![s] = "finally"]
    /\ UNCHANGED <<mgrVars, next_uuid, clock, tx, is_open, bind, body_exc,
                   call, ret>>

\* the flow is cancelled while `await session.rollback()` is suspended: the
\* CancelledError replaces the exception in flight
RollbackCancelled(s) ==
    /\ pc[s] = "except"
    /\ exc' = [exc EXCEPT ![s] = "CancelledError"]
    /\ pc' = [pc EXCEPT ![s] = "finally"]
    /\ UNCHANGED <<mgrVars, dbVars, next_uuid, clock, tx, pending, is_open,
                   bind, body_exc, commits, call, ret>>

\* the flow is cancelled while `await session.close()` is suspended: the
\* session has let go of its transaction, and the connection, whose reset
\* was interrupted, is discarded and not given back to the pool
CloseCancelled(s) ==
    /\ pc[s] = "finally"
    /\ pending' = [pending EXCEPT ![s] = NoPending]
    /\ tx' = [tx EXCEPT ![s] = "none"]
    /\ is_open' = [is_open EXCEPT ![s] = FALSE]
    /\ bind' = [bind EXCEPT ![s].conn = "none"]
    /\ exc' = [exc EXCEPT ![s] = "CancelledError"]
    /\ pc' = [pc EXCEPT ![s] = "exited"]
    /\ UNCHANGED <<mgrVars, dbVars, next_uuid, clock, body_exc, commits, call,
                   ret>>

\* scopes whose bodies create messages and whose flow may be cancelled at
\* every await of the scope
NextCancel ==
    \E s \in Scopes :
        \/ Acquire(s)
        \/ BodyReturn(s)
        \/ BodyRaise(s, "CancelledError")
        \/ BodyPropagate(s)
        \/ Commit(s, "none")
        \/ \E applied \in BOOLEAN : CommitCancelled(s, applied)
        \/ Rollback(s, "none")
        \/ RollbackCancelled(s)
        \/ Close(s)
        \/ CloseCancelled(s)
        \/ \E ext \in ExtIds : create_slack_message(s, ext, "C1", "U1", 1, NoVec)

SpecCancel == Init /\ [][NextCancel]_vars

\* ------------------------------------------ conversation thread operations
\* thread_ts values, in microseconds (the scale of Numeric(16, 6))
ThreadTimestamps == {1, 2}
DefaultThreadIncrement == 1    \* increment_messages: int = 1

\* rows of conversation_threads another open transaction inserted and has
\* not committed yet
ForeignInsertedThreads(s) ==
    UNION {{r \in pending[t].thrs : r.id \notin Ids(conversation_threads)} :
           t \in Scopes \ {s}}

\* a unique index on thread_ts that no INSERT ever violates
ThreadTaken_never(rows, thread_ts) == FALSE

\* the unique index on thread_ts: a row of `rows` has the key
ThreadTaken(rows, thread_ts) == \E r \in rows : r.thread_ts = thread_ts

\* create_conversation_thread: session.add, then the flush of one INSERT,
\* which waits while another open transaction has inserted the key
create_conversation_thread(s, thread_ts, channel_id) ==
    /\ pc[s] = "body"
    /\ next_uuid <= MaxUuid
    /\ \A r \in ForeignInsertedThreads(s) : r.thread_ts # thread_ts
    /\ LET thread == NewThread(next_uuid, thread_ts, channel_id, clock)
           fault == InsertFault(s, ThreadTaken(VisibleThreads(s), thread_ts))
       IN  IF fault = "none"
           THEN /\ pending' = [pending EXCEPT ![s].thrs = @ \cup {thread}]
                /\ next_uuid' = next_uuid + 1
                /\ ret' = Returned(s, "create_conversation_thread", thread,
                                   "INSERT")
                /\ UNCHANGED <<pc, tx, exc>>
           ELSE /\ CallRaises(s, "create_conversation_thread", fault,
                              fault = "IntegrityError")
                /\ next_uuid' = IF fault = "IntegrityError" THEN next_uuid + 1
                                ELSE next_uuid
    /\ UNCHANGED <<mgrVars, dbVars, clock, is_open, bind, body_exc, commits,
                   call>>

\* the thread after an update that leaves last_activity_at as it was
UpdatedThread_activityKept(thread, stored, increment_messages, now) ==
    [stored EXCEPT
        !.message_count = thread.message_count + increment_messages]

\* the row after the UPDATE that flushes `thread.message_count +=
\* increment_messages; thread.last_activity_at = now`: `thread` is the
\* object the select loaded, `stored` the row as the session sees it at the
\* flush, of which only the assigned columns are set
UpdatedThread(thread, stored, increment_messages, now) ==
    [stored EXCEPT
        !.message_count = thread.message_count + increment_messages,
        !.last_activity_at = now]

\* update_thread_activity up to its second await: get_conversation_thread
\* found no row and None is returned, or found the row and the flush is next
update_thread_activity_get(s, thread_ts, increment_messages) ==
    /\ pc[s] = "body"
    /\ LET thread == ThreadByTs(VisibleThreads(s), thread_ts)
       IN  IF tx[s] = "inactive"
           THEN /\ CallRaises(s, "update_thread_activity",
                              "PendingRollbackError", FALSE)
                /\ UNCHANGED call
           ELSE /\ IF thread = NoRow
                   THEN /\ ret' = Returned(s, "update_thread_activity", NoRow,
                                           "SELECT")
                        /\ UNCHANGED <<pc, call>>
                   ELSE /\ thread.message_count + increment_messages
                               <= MaxCount
                        /\ call' = [call EXCEPT ![s] =
                                      [op |-> "update_thread_activity",
                                       thread_ts |-> thread_ts,
                                       increment_messages |-> increment_messages,
                                       thread |-> thread]]
                        /\ pc' = [pc EXCEPT ![s] = "in_call"]
                        /\ UNCHANGED ret
                /\ UNCHANGED <<tx, exc, pending>>
    /\ UNCHANGED <<mgrVars, dbVars, next_uuid, clock, is_open, bind, body_exc,
                   commits>>

\* a row version of a thread another open transaction wrote: its row lock
\* is held
ThreadLockedElsewhere(s, id) ==
    \E t \in Scopes \ {s} : id \in Ids(pending[t].thrs)

\* the assignments and `await session.flush()`: one UPDATE of the row, which
\* waits while another open transaction holds a version of it
update_thread_activity_flush(s) ==
    /\ pc[s] = "in_call"
    /\ call[s].op = "update_thread_activity"
    /\ ~ThreadLockedElsewhere(s, call[s].thread.id)
    /\ LET stored == CHOOSE r \in VisibleThreads(s) :
                         r.id = call[s].thread.id
           thread == UpdatedThread(call[s].thread, stored,
                                   call[s].increment_messages, clock)
       IN  /\ pending' = [pending EXCEPT ![s].thrs = Overlay(@, {thread})]
           /\ ret' = Returned(s, "update_thread_activity", thread, "UPDATE")
    /\ pc' = [pc EXCEPT ![s] = "body"]
    /\ call' = [call EXCEPT ![s] = NoCall]
    /\ UNCHANGED <<mgrVars, dbVars, next_uuid, clock, tx, is_open, bind, exc,
                   body_exc, commits>>

\* the increments given to update_thread_activity
ThreadIncrements == {DefaultThreadIncrement, 3}

\* a store that holds the thread of the second timestamp
InitThreads ==
    /\ engine = 0
    /\ session_factory = 0
    /\ engines_created = 0
    /\ factories_built = 0
    /\ pool = 0
    /\ bind = [s \in Scopes |-> NoBind]
    /\ slack_messages = {}
    /\ user_contexts = {}
    /\ conversation_threads = {NewThread(1, 2, "C1", 1)}
    /\ clock = 1
    /\ next_uuid = 2
    /\ pc = [s \in Scopes |-> "init"]
    /\ tx = [s \in Scopes |-> "none"]
    /\ pending = [s \in Scopes |-> NoPending]
    /\ is_open = [s \in Scopes |-> FALSE]
    /\ exc = [s \in Scopes |-> "none"]
    /\ body_exc = [s \in Scopes |-> "none"]
    /\ commits = [s \in Scopes |-> 0]
    /\ call = [s \in Scopes |-> NoCall]
    /\ ret = Returned(0, "none", 0, "none")

\* scopes that run one after another and whose bodies create threads and
\* update the activity of the first timestamp's, while time passes
NextThreads ==
    \/ (\E s \in Scopes : pc[s] = "body") /\ Tick
    \/ \E s \in Scopes :
        \/ Alone(s) /\ Acquire(s)
        \/ BodyReturn(s)
        \/ BodyPropagate(s)
        \/ Commit(s, "none")
        \/ Rollback(s, "none")
        \/ Close(s)
        \/ \E ts \in ThreadTimestamps : create_conversation_thread(s, ts, "C1")
        \/ \E n \in ThreadIncrements : update_thread_activity_get(s, 1, n)
        \/ update_thread_activity_flush(s)

SpecThreads == InitThreads /\ [][NextThreads]_vars

\* ------------------------------------------------ update_message_embedding
\* Vector(settings.embedding_dimension), with vectors of two elements
EmbeddingDimension == 2

\* the same UPDATE with `is_deleted IS false` added to its WHERE clause
WithEmbedding_liveOnly(rows, message_id, embedding) ==
    {[r EXCEPT !.embedding = embedding] :
        r \in {x \in rows : x.id = message_id /\ ~x.is_deleted}}

\* the UPDATE of the embedding that also clears is_deleted
WithEmbedding_undeletes(rows, message_id, embedding) ==
    {[r EXCEPT !.embedding = embedding, !.is_deleted = FALSE] :
        r \in {x \in rows : x.id = message_id}}

\* update(SlackMessage).where(SlackMessage.id == message_id)
\*     .values(embedding=embedding): the new versions of the rows it matches
WithEmbedding(rows, message_id, embedding) ==
    {[r EXCEPT !.embedding = embedding] : r \in {x \in rows : x.id = message_id}}

\* what the backend makes of the UPDATE: the column takes vectors of its
\* dimension only; whether a vector of another length is refused when no
\* row is to be written is the backend's choice
EmbeddingOutcomes(embedding, matched) ==
    IF Len(embedding) = EmbeddingDimension THEN {"none"}
    ELSE IF matched THEN {"DataError"}
    ELSE {"none", "DataError"}

\* update_message_embedding: one UPDATE ... RETURNING, which waits while
\* another open transaction holds a version of the row, and
\* scalar_one_or_none of what it returns
update_message_embedding(s, message_id, embedding) ==
    /\ pc[s] = "body"
    /\ LET updated == WithEmbedding(VisibleMessages(s), message_id, embedding)
       IN  /\ updated # {} => ~LockedElsewhere(s, message_id)
           /\ IF tx[s] = "inactive"
              THEN CallRaises(s, "update_message_embedding",
                              "PendingRollbackError", FALSE)
              ELSE \E outcome \in EmbeddingOutcomes(embedding, updated # {}) :
                      IF outcome = "none"
                      THEN /\ pending' = [pending EXCEPT
                                            ![s].msgs = Overlay(@, updated)]
                           /\ ret' = Returned(s, "update_message_embedding",
                                              ScalarOneOrNone(updated),
                                              "UPDATE")
                           /\ UNCHANGED <<pc, tx, exc>>
                      ELSE CallRaises(s, "update_message_embedding", outcome,
                                      FALSE)
    /\ UNCHANGED <<mgrVars, dbVars, next_uuid, clock, is_open, bind, body_exc,
                   commits, call>>

\* the vectors given to update_message_embedding, the last of a length the
\* column does not take
NewEmbeddings == {<<3, 4>>, <<1>>}

\* scopes that run one after another and whose bodies create messages,
\* soft-delete them and set their embeddings, by any internal id, up to
\* the first call that raises
NextEdits ==
    \E s \in Scopes :
        \/ Alone(s) /\ Acquire(s)
        \/ BodyReturn(s)
        \/ Commit(s, "none")
        \/ Close(s)
        \/ \E ext \in ExtIds : create_slack_message(s, ext, "C1", "U1", 1, NoVec)
        \/ \E id \in 1..MaxUuid : soft_delete_message(s, id)
        \/ \E id \in 1..MaxUuid, emb \in NewEmbeddings :
               update_message_embedding(s, id, emb)

SpecEdits == Init /\ [][NextEdits]_vars

\* ------------------------------------------- module-level get_session
\* `async with get_session() as session:` with the module-level function,
\* an async generator function that no @asynccontextmanager wraps: the
\* call gives an async generator object, which has no __aenter__, so the
\* statement raises TypeError before the generator has run at all
get_session(s) ==
    /\ pc[s] = "init"
    /\ call[s] = NoCall
    /\ call' = [call EXCEPT ![s] = [op |-> "get_session"]]
    /\ exc' = [exc EXCEPT ![s] = "TypeError"]
    /\ pc' = [pc EXCEPT ![s] = "exited"]
    /\ UNCHANGED <<mgrVars, dbVars, next_uuid, clock, tx, pending, is_open,
                   bind, body_exc, commits, ret>>

\* flows that open their scope with db_manager.get_session() or with the
\* module-level get_session(), create messages in it and may raise
NextConvenience ==
    \E s \in Scopes :
        \/ get_session(s)
        \/ Acquire(s)
        \/ BodyReturn(s)
        \/ BodyRaise(s, "RuntimeError")
        \/ BodyPropagate(s)
        \/ Commit(s, "none")
        \/ Rollback(s, "none")
        \/ Close(s)
        \/ \E ext \in ExtIds : create_slack_message(s, ext, "C1", "U1", 1, NoVec)

SpecConvenience == Init /\ [][NextConvenience]_vars

\* ------------------------------------------------- every writing operation
\* the scope has staged nothing yet
NothingStaged(s) == pending[s] = NoPending

\* at most one other scope is between its entry and its exit
OneBeside(s) ==
    Cardinality({t \in Scopes \ {s} : pc[t] \notin {"init", "exited"}}) <= 1

\* scopes of which two at a time are open, each calling one of the
\* creating, updating, soft-deleting and bulk operations on messages, user
\* contexts and threads, and create_slack_message and soft_delete_message
\* at any time; a body may raise
NextStaging ==
    \E s \in Scopes :
        \/ OneBeside(s) /\ Acquire(s)
        \/ BodyReturn(s)
        \/ BodyRaise(s, "RuntimeError")
        \/ BodyPropagate(s)
        \/ Commit(s, "none")
        \/ Rollback(s, "none")
        \/ Close(s)
        \/ create_slack_message(s, "m1", "C1", "U1", 1, NoVec)
        \/ /\ NothingStaged(s)
           /\ bulk_create_messages(s, <<"m1", "m2">>, "C1", "U1", 1)
        \/ \E id \in Ids(VisibleMessages(s)) : soft_delete_message(s, id)
        \/ /\ NothingStaged(s)
           /\ \E id \in Ids(VisibleMessages(s)) :
                  update_message_embedding(s, id, <<3, 4>>)
        \/ NothingStaged(s) /\ create_user_context(s, "U1")
        \/ NothingStaged(s) /\ create_conversation_thread(s, 1, "C1")
        \/ NothingStaged(s) /\ update_thread_activity_get(s, 1, 3)
        \/ update_thread_activity_flush(s)

SpecStaging == Init /\ [][NextStaging]_vars

\* ------------------------------------------- concurrent counter updates
\* a store that holds the context of one user and one thread
InitRace ==
    /\ engine = 0
    /\ session_factory = 0
    /\ engines_created = 0
    /\ factories_built = 0
    /\ pool = 0
    /\ bind = [s \in Scopes |-> NoBind]
    /\ slack_messages = {}
    /\ user_contexts = {NewContext(1, "U1")}
    /\ conversation_threads = {NewThread(2, 1, "C1", 1)}
    /\ clock = 1
    /\ next_uuid = 3
    /\ pc = [s \in Scopes |-> "init"]
    /\ tx = [s \in Scopes |-> "none"]
    /\ pending = [s \in Scopes |-> NoPending]
    /\ is_open = [s \in Scopes |-> FALSE]
    /\ exc = [s \in Scopes |-> "none"]
    /\ body_exc = [s \in Scopes |-> "none"]
    /\ commits = [s \in Scopes |-> 0]
    /\ call = [s \in Scopes |-> NoCall]
    /\ ret = Returned(0, "none", 0, "none")

\* scopes that are open together and whose bodies update the statistics of
\* that user and the activity of that thread
NextRace ==
    \E s \in Scopes :
        \/ Acquire(s)
        \/ BodyReturn(s)
        \/ Commit(s, "none")
        \/ Close(s)
        \/ \E n \in Increments : update_user_context_stats_get(s, "U1", n)
        \/ update_user_context_stats_flush(s)
        \/ \E n \in ThreadIncrements : update_thread_activity_get(s, 1, n)
        \/ update_thread_activity_flush(s)

SpecRace == InitRace /\ [][NextRace]_vars

\* --------------------------------------------------- a commit that fails
\* scopes whose bodies create messages and return; the backend may fail the
\* commit of the exit, and the rollback that follows it
NextCommitFault ==
    \E s \in Scopes :
        \/ Acquire(s)
        \/ BodyReturn(s)
        \/ \E o \in {"none", "CommitFailed"} : Commit(s, o)
        \/ \E o \in {"none", "RollbackFailed"} : Rollback(s, o)
        \/ Close(s)
        \/ \E ext \in ExtIds : create_slack_message(s, ext, "C1", "U1", 1, NoVec)

SpecCommitFault == Init /\ [][NextCommitFault]_vars

\* ================================================================ claims
InScope(s) == pc[s] \in {"body", "in_call", "raising", "commit", "except",
                          "finally"}
CommitStep(s) == pc[s] = "commit" /\ pc'[s] = "finally"

\* C1: when a fault is raised inside a get_session scope, nothing the scope
\* staged or flushed is committed, and the scope raises that same fault to
\* the caller.  (Stated as the claim states it; the code does not keep it.)
C1_FaultRolledBackAndReraised ==
    \A s \in Scopes :
        (pc[s] = "exited" /\ body_exc[s] # "none") =>
            /\ commits[s] = 0
            /\ pending[s] = NoPending
            /\ exc[s] = body_exc[s]

C2_Exited ==
    \A s \in Scopes :
        /\ commits[s] <= 1
        /\ commits[s] = 1 => body_exc[s] = "none" /\ pc[s] \in {"finally", "exited"}
        /\ (pc[s] = "exited" /\ body_exc[s] = "none" /\ exc[s] = "none")
               => commits[s] = 1
C2_CommitStores ==
    \A s \in Scopes :
        CommitStep(s) =>
            /\ pending[s].msgs \subseteq slack_messages'
            /\ pending[s].ctxs \subseteq user_contexts'
            /\ \A t \in Scopes :
                   pending'[t] = NoPending =>
                       /\ VisibleMessages(t)' = slack_messages'
                       /\ pending[s].msgs \subseteq VisibleMessages(t)'
C3_SessionClosedOnEveryExit ==
    \A s \in Scopes :
        /\ pc[s] = "exited" =>
               ~is_open[s] /\ tx[s] = "none" /\ pending[s] = NoPending
        /\ is_open[s] <=> InScope(s)

\* a scope left through a rollback that raised, with its session closed
C3_Witness ==
    \E s \in Scopes :
        pc[s] = "exited" /\ exc[s] = "RollbackFailed" /\ ~is_open[s]
\* get_message_count(session, include_deleted=True) as session s would get it
TotalCount(s) == CountMessages(VisibleMessages(s), None, None, TRUE)
LiveCount(s) == CountMessages(VisibleMessages(s), None, None, FALSE)

\* a create_slack_message call of s with an external id that s sees stored
DuplicateCreate(s, ext) ==
    /\ tx[s] = "active"
    /\ \E r \in VisibleMessages(s) : r.slack_message_id = ext
    /\ create_slack_message(s, ext, "C1", "U1", 1, NoVec)

\* C6, as the claim states it: a create with an external id that exists,
\* committed or pending in the same session, raises IntegrityError and the
\* total the session counts is what it was before the call
C6_DuplicateLeavesCount ==
    [][\A s \in Scopes, ext \in ExtIds :
           DuplicateCreate(s, ext) =>
               /\ exc'[s] = "IntegrityError"
               /\ TotalCount(s)' = TotalCount(s)]_vars

\* C6, amended: the call raises IntegrityError and the committed rows are
\* what they were; the failed flush rolls the session's transaction back, so
\* the session then counts the committed rows only: its total drops by the
\* messages it had inserted and not committed, and is unchanged exactly when
\* it had none
C6_DuplicateRollsBackSession ==
    [][\A s \in Scopes, ext \in ExtIds :
           DuplicateCreate(s, ext) =>
               /\ exc'[s] = "IntegrityError" /\ ret'.exc = "IntegrityError"
               /\ slack_messages' = slack_messages
               /\ tx'[s] = "inactive"
               /\ VisibleMessages(s)' = slack_messages
               /\ TotalCount(s)' = TotalCount(s)
                      - Cardinality(Ids(pending[s].msgs) \ Ids(slack_messages))
               /\ (Ids(pending[s].msgs) \subseteq Ids(slack_messages))
                      => TotalCount(s)' = TotalCount(s)]_vars

\* a create with the external id of a committed message was refused, and
\* the session's transaction is inactive
C6_Witness ==
    \E s \in Scopes :
        /\ pc[s] = "raising" /\ exc[s] = "IntegrityError"
        /\ ret = Raised(s, "create_slack_message", "IntegrityError", "INSERT")
        /\ tx[s] = "inactive"
        /\ slack_messages # {}

\* C7: a create with an external id that is not stored raises the total the
\* session counts by exactly 1 and returns the message with a generated
\* internal id and is_deleted false, while nothing is committed yet
C7_CreateAddsOne ==
    [][\A s \in Scopes, ext \in ExtIds :
           (/\ create_slack_message(s, ext, "C1", "U1", 1, NoVec)
            /\ pc'[s] = "body") =>
               /\ TotalCount(s)' = TotalCount(s) + 1
               /\ ret'.exc = "none"
               /\ ret'.val.slack_message_id = ext
               /\ ret'.val.id # 0
               /\ ret'.val.id \notin Ids(VisibleMessages(s))
               /\ ret'.val.is_deleted = FALSE
               /\ ret'.val \in VisibleMessages(s)'
               /\ ret'.val \notin slack_messages'
               /\ slack_messages' = slack_messages
               /\ commits' = commits]_vars

\* a session holds two created messages, not committed, and counts 2
C7_Witness ==
    \E s \in Scopes :
        /\ pc[s] = "body" /\ TotalCount(s) = 2 /\ slack_messages = {}
        /\ ret.op = "create_slack_message" /\ ret.exc = "none" /\ ret.s = s

\* C8: after soft_delete_message returns True for a row the session sees,
\* get_slack_message_by_id gives that row with is_deleted true, the count
\* without deleted rows is one less if the row was not deleted before, and
\* the count with deleted rows is what it was
C8_SoftDeleteKeepsRow ==
    [][\A s \in Scopes, id \in 1..MaxUuid :
           (/\ soft_delete_message(s, id)
            /\ pc'[s] = "body"
            /\ MessageById(VisibleMessages(s), id) # NoRow) =>
               LET old == MessageById(VisibleMessages(s), id)
               IN  /\ ret'.val = TRUE
                   /\ MessageById(VisibleMessages(s)', id)
                          = [old EXCEPT !.is_deleted = TRUE]
                   /\ LiveCount(s)' = LiveCount(s)
                                      - (IF old.is_deleted THEN 0 ELSE 1)
                   /\ TotalCount(s)' = TotalCount(s)]_vars

\* a session soft-deleted a committed message and, before it commits, reads
\* it by id with is_deleted true and counts it only among all rows
C8_Witness ==
    \E s \in Scopes :
        /\ pc[s] = "body"
        /\ ret = Returned(s, "soft_delete_message", TRUE, "UPDATE")
        /\ \E r \in slack_messages :
               /\ ~r.is_deleted
               /\ MessageById(VisibleMessages(s), r.id)
                      = [r EXCEPT !.is_deleted = TRUE]
        /\ LiveCount(s) = 0 /\ TotalCount(s) = 1

\* at most one row of `rows` for each user_id
OneContextPerUser(rows) ==
    \A u \in Users : Cardinality({r \in rows : r.user_id = u}) <= 1

\* C4: a get_or_create_user_context call for a user_id whose context the
\* session sees (made by an earlier call of the same session, or committed
\* by an earlier session) returns that row, with the id the first call
\* returned, and inserts nothing; no session ever sees, and the table never
\* holds, two context rows of one user_id
C4_Unique ==
    /\ OneContextPerUser(user_contexts)
    /\ \A s \in Scopes : OneContextPerUser(VisibleContexts(s))
C4_SecondCallReturnsStored ==
    \A s \in Scopes, u \in Users :
        (/\ get_or_create_user_context_get(s, u)
         /\ \E r \in VisibleContexts(s) : r.user_id = u) =>
            LET stored == CHOOSE r \in VisibleContexts(s) : r.user_id = u
            IN  /\ ret' = Returned(s, "get_or_create_user_context", stored,
                                   "SELECT")
                /\ ret'.val.id = stored.id
                /\ pc'[s] = "body"
                /\ UNCHANGED <<pending, next_uuid, clock, slack_messages, user_contexts>>
                /\ VisibleContexts(s)' = VisibleContexts(s)
C4_SameContextTwice == []C4_Unique /\ [][C4_SecondCallReturnsStored]_vars

\* a later session got the context an earlier session created and committed
C4_Witness ==
    \E s \in Scopes, t \in Scopes :
        /\ s # t /\ pc[s] = "exited" /\ commits[s] = 1 /\ pc[t] = "body"
        /\ ret.s = t /\ ret.op = "get_or_create_user_context"
        /\ ret.sql = "SELECT" /\ ret.val \in user_contexts
        /\ call[s].context = NoRow /\ call[s].user_id = ret.val.user_id

\* the scopes whose last get_or_create_user_context call read no row for u
Missed(u) ==
    {s \in Scopes : /\ call[s].op = "get_or_create_user_context"
                    /\ call[s].user_id = u
                    /\ call[s].context = NoRow}

\* C5: of the sessions that call get_or_create_user_context for a user_id
\* and read no row, at most one commits its insert; the INSERT of a session
\* that by then sees the row raises IntegrityError out of the function, with
\* no read after it; once those sessions have ended exactly one context row
\* of that user_id is stored and every one of them that did not commit
\* raised IntegrityError
C5_OneSurvivor ==
    /\ OneContextPerUser(user_contexts)
    /\ \A u \in Users :
           (Missed(u) # {} /\ \A s \in Missed(u) : pc[s] = "exited") =>
               /\ Cardinality({r \in user_contexts : r.user_id = u}) = 1
               /\ Cardinality({s \in Missed(u) : commits[s] = 1}) <= 1
               /\ \A s \in Missed(u) :
                      \/ commits[s] = 1 /\ exc[s] = "none"
                      \/ commits[s] = 0 /\ exc[s] = "IntegrityError"
C5_LoserRaises ==
    \A s \in Scopes :
        (/\ get_or_create_user_context_create(s)
         /\ \E r \in VisibleContexts(s) : r.user_id = call[s].user_id) =>
            /\ pc'[s] = "raising" /\ exc'[s] = "IntegrityError"
            /\ ret' = Raised(s, "get_or_create_user_context", "IntegrityError",
                             "INSERT")
            /\ pending'[s] = NoPending
            /\ user_contexts' = user_contexts
C5_RaceLeavesOneRow == []C5_OneSurvivor /\ [][C5_LoserRaises]_vars

\* two sessions read no row for the same user_id; one committed its insert
\* and the other raised IntegrityError
C5_Witness ==
    \E u \in Users, s \in Scopes, t \in Scopes :
        /\ s # t /\ {s, t} \subseteq Missed(u)
        /\ pc[s] = "exited" /\ pc[t] = "exited"
        /\ commits[s] = 1 /\ exc[t] = "IntegrityError"
        /\ Cardinality({r \in user_contexts : r.user_id = u}) = 1

\* the search whose result `ret` holds, and what it ran on
SearchReturned == ret.op = "search_similar_messages" /\ ret.exc = "none"
SearchArgs == call[ret.s]
SearchVector ==
    [i \in 1..Len(SearchArgs.query_embedding) |->
        SearchArgs.query_embedding[i].v]
Cosine(r) ==
    (100 * (r.embedding[1] * SearchVector[1] + r.embedding[2] * SearchVector[2]))
        \div (Norm(r.embedding) * Norm(SearchVector))
Eligible ==
    {r \in VisibleMessages(ret.s) :
        /\ ~r.is_deleted
        /\ r.embedding # NoVec
        /\ Cosine(r) >= SearchArgs.similarity_threshold
        /\ SearchArgs.user_id # None => r.user_id = SearchArgs.user_id
        /\ SearchArgs.channel_id # None => r.channel_id = SearchArgs.channel_id}
SmallerOf(a, b) == IF a < b THEN a ELSE b

\* C9: a search with a valid query returns at most `limit` pairs of message
\* and score: of the rows that are not soft-deleted, have an embedding,
\* score at least the threshold and match every filter given (the empty
\* string included), the `limit` closest ones, each once, closest first
C9_SearchReturnsClosestEligible ==
    SearchReturned =>
        LET res == ret.val
            n == Len(res)
        IN  /\ n = SmallerOf(SearchArgs.limit, Cardinality(Eligible))
            /\ \A i \in 1..n : res[i][1] \in Eligible
            /\ \A i \in 1..n : res[i][2] = Cosine(res[i][1])
            /\ \A i, j \in 1..n : i # j => res[i][1].id # res[j][1].id
            /\ \A i, j \in 1..n : i < j => res[i][2] >= res[j][2]
            /\ \A r \in Eligible :
                   (\A i \in 1..n : res[i][1] # r) =>
                       \A i \in 1..n : Cosine(r) <= res[i][2]

\* a search limited to one row returned the closer of two eligible rows of
\* unequal scores and skipped a soft-deleted row
C9_Witness ==
    /\ SearchReturned
    /\ SearchArgs.limit = 1 /\ Len(ret.val) = 1
    /\ Cardinality(Eligible) = 2
    /\ \E r \in Eligible : Cosine(r) < ret.val[1][2]
    /\ \E r \in VisibleMessages(ret.s) : r.is_deleted

\* a search returned two rows of unequal scores, the closer one first
C9_WitnessOrdered ==
    /\ SearchReturned
    /\ Len(ret.val) = 2
    /\ ret.val[1][2] > ret.val[2][2]

\* a search filtered by the empty-string user returned only that user's
\* rows although another user's row scored as well
C9_WitnessEmptyFilter ==
    /\ SearchReturned
    /\ SearchArgs.user_id = "" /\ SearchArgs.channel_id = None
    /\ Len(ret.val) = 1
    /\ \E r \in VisibleMessages(ret.s) :
           /\ r.user_id = "U1" /\ ~r.is_deleted /\ r.embedding # NoVec
           /\ Cosine(r) >= ret.val[1][2]

NotAllNumbers(q) == \E i \in 1..Len(q) : q[i].t \notin {"int", "float"}

\* C10: a search whose query is empty or holds an element that is no
\* number raises ValueError, runs no statement and changes nothing of the
\* table or of the session
C10_InvalidQueryRejected ==
    [][\A s \in Scopes, q \in InvalidQueries :
          search_similar_messages(s, q, DefaultThreshold, DefaultLimit,
                                  None, None)
          => /\ q = <<>> \/ NotAllNumbers(q)
             /\ pc'[s] = "raising" /\ exc'[s] = "ValueError"
             /\ ret' = Raised(s, "search_similar_messages", "ValueError",
                              "none")
             /\ UNCHANGED <<mgrVars, dbVars, next_uuid, clock, tx, pending, is_open, bind,
                            commits>>]_vars

\* a search whose last element is a bool was rejected before any statement
C10_Witness ==
    /\ ret = Raised(1, "search_similar_messages", "ValueError", "none")
    /\ call[1].query_embedding = <<Num(1), NotNum("bool")>>
    /\ pc[1] = "raising" /\ tx[1] = "active"

\* a search with an empty query was rejected
C10_WitnessEmpty ==
    /\ ret = Raised(1, "search_similar_messages", "ValueError", "none")
    /\ call[1].query_embedding = <<>>

\* C11, as the claim states it: a search whose query holds nan, inf or -inf
\* at any position raises ValueError and runs no statement
C11_NonFiniteRejected ==
    [][\A s \in Scopes, q \in NonFiniteQueries :
          search_similar_messages(s, q, DefaultThreshold, DefaultLimit,
                                  None, None)
          => /\ exc'[s] = "ValueError"
             /\ ret' = Raised(s, "search_similar_messages", "ValueError",
                              "none")]_vars

\* what the code does with such a query: both checks pass, the statement
\* with the literal in its text is executed, and the backend refuses it
C11_NonFiniteReachesBackend ==
    [][\A s \in Scopes, q \in NonFiniteQueries :
          search_similar_messages(s, q, DefaultThreshold, DefaultLimit,
                                  None, None)
          => /\ EmbeddingFault(q) = "none"
             /\ \E i \in 1..Len(q) : EmbeddingStr(q)[i].lit = q[i].fin
             /\ ret' = Raised(s, "search_similar_messages", "DataError",
                              "SELECT")]_vars

\* a search with a nan element was executed and refused by the backend
C11_Witness ==
    /\ ret = Raised(1, "search_similar_messages", "DataError", "SELECT")
    /\ call[1].query_embedding = <<NonFinite("nan"), Num(0)>>

\* the context row of the call of s in progress, as s sees it
StoredContext(s) == CHOOSE r \in VisibleContexts(s) : r.id = call[s].context.id

C12_Updates ==
    \A s \in Scopes :
        (update_user_context_stats_flush(s) /\ StoredContext(s) = call[s].context)
        => LET before == StoredContext(s)
               after == ret'.val
               user_id == call[s].user_id
           IN  /\ ret'.exc = "none"
               /\ after.total_messages
                      = before.total_messages + call[s].increment_messages
               /\ after.last_message_at = clock
               /\ after.last_message_at >= before.last_message_at
               /\ after.first_message_at # 0
               /\ before.first_message_at # 0
                      => after.first_message_at = before.first_message_at
               /\ after.id = before.id /\ after.user_id = before.user_id
               /\ ContextByUser(VisibleContexts(s)', user_id) = after
               /\ UNCHANGED <<dbVars, next_uuid>>

C12_NotFound ==
    \A s \in Scopes, u \in Users, n \in Increments \cup {DefaultIncrement} :
        (/\ update_user_context_stats_get(s, u, n)
         /\ tx[s] = "active"
         /\ ContextByUser(VisibleContexts(s), u) = NoRow)
        => /\ ret' = Returned(s, "update_user_context_stats", NoRow, "SELECT")
           /\ UNCHANGED <<dbVars, pending, next_uuid, clock, pc, tx, exc, call>>

\* C12: an update_user_context_stats call on a context that exists, with no
\* other session writing that row during the call, adds increment_messages
\* to total_messages, sets last_message_at to the current time, never
\* earlier than it was, and sets first_message_at only when it was unset;
\* for a user_id without context it returns None and changes nothing
C12_StatsUpdated == [][C12_Updates /\ C12_NotFound]_vars

\* a context created fresh was updated by 5 and then by 3, or by 3 and then
\* by 5, at different times: its total is 8 and its first_message_at is
\* the time of the first update
C12_Witness ==
    /\ ret.op = "update_user_context_stats" /\ ret.exc = "none"
    /\ ret.val # NoRow
    /\ ret.val.total_messages = 8
    /\ ret.val.first_message_at # 0
    /\ ret.val.first_message_at < ret.val.last_message_at

\* an update for a user without context returned None
C12_WitnessNotFound ==
    /\ ret.op = "update_user_context_stats" /\ ret.val = NoRow
    /\ ret.exc = "none" /\ ret.sql = "SELECT"
    /\ pc[ret.s] = "body"

\* the flows whose health_check call is over
HealthChecked == {s \in Scopes : /\ call[s].op = "health_check"
                                 /\ call[s].result # "running"}

\* C13, as the claim states it: health_check never raises; it returns True
\* when nothing raised up to and including the scope's commit, False when
\* a step raised, and its session is closed when it returns
C13_HealthCheckNeverRaises ==
    \A s \in HealthChecked :
        /\ call[s].result \in {"True", "False"}
        /\ call[s].result = "True" <=> exc[s] = "none"
        /\ call[s].result = "True" => commits[s] = 1
        /\ ~is_open[s] /\ pc[s] = "exited"

\* C13, amended: health_check raises no Exception: it returns True when
\* nothing raised up to and including the scope's commit and False when a
\* step raised an Exception; a cancellation of the flow at its await is no
\* Exception and leaves health_check as CancelledError; in every case the
\* session is closed by then
C13_HealthCheckRaisesOnlyCancellation ==
    \A s \in HealthChecked :
        /\ call[s].result \in {"True", "False"} \cup BaseExceptions
        /\ call[s].result = "True" <=> exc[s] = "none"
        /\ call[s].result = "True" => commits[s] = 1
        /\ call[s].result = "False" <=> exc[s] \in Exceptions
        /\ call[s].result \in BaseExceptions <=> exc[s] = call[s].result
        /\ ~is_open[s] /\ pc[s] = "exited"

\* one health check returned True and another, whose query the backend
\* failed, returned False with its session closed
C13_Witness ==
    \E s, t \in HealthChecked :
        /\ call[s].result = "True" /\ commits[s] = 1
        /\ call[t].result = "False" /\ body_exc[t] = "OperationalError"
        /\ ~is_open[t]

\* a health check was cancelled at its query
C13_WitnessCancelled ==
    \E s \in HealthChecked :
        call[s].result = "CancelledError" /\ bind[s].engine # 0 /\ ~is_open[s]

\* C19: whatever the order of session acquisitions, health checks and close
\* calls, create_engine makes at most one engine and the session factory is
\* built at most once, neither before a first session is asked for, and
\* every session is bound to the manager's one engine
C19_OneEngineOneFactory ==
    /\ engines_created <= 1 /\ factories_built <= 1
    /\ engine = engines_created /\ session_factory = factories_built
    /\ (\A s \in Scopes : pc[s] = "init") => engine = 0 /\ session_factory = 0
    /\ \A s \in Scopes :
           bind[s] # NoBind =>
               bind[s].engine = engine /\ bind[s].engine = session_factory

\* two sessions were made, the second after a close call, both bound to the
\* one engine
C19_Witness ==
    \E s, t \in Scopes :
        /\ s # t
        /\ bind[s].engine = 1 /\ bind[s].conn = "detached"
        /\ bind[t].engine = 1 /\ bind[t].conn = "pooled"
        /\ engines_created = 1 /\ factories_built = 1

\* a state that a close call leaves as it is
ClosedState ==
    engine # 0 => pool = 0 /\ \A s \in Scopes : bind[s].conn # "pooled"

\* C20: a close call leaves a state that a further close call does not
\* change; without an engine it changes nothing and makes no engine; with
\* one it empties the pool and keeps the engine and the factory
C20_CloseIdempotent ==
    [][close => /\ ClosedState'
                /\ engine = 0 => UNCHANGED vars
                /\ UNCHANGED <<engine, session_factory, engines_created,
                               factories_built, dbVars, pc, tx, pending,
                               is_open, exc>>]_vars

\* after a close call made while one session was open the pool is empty and
\* that session's connection is no longer the engine's
C20_Witness ==
    /\ engine # 0 /\ pool = 0
    /\ \E s \in Scopes : bind[s].conn = "detached" /\ is_open[s]
    /\ \E s \in Scopes : pc[s] = "exited" /\ bind[s].engine # 0

SameRows(res, rows) ==
    /\ \A i \in 1..Len(res) : res[i] \in rows
    /\ \A i, j \in 1..Len(res) : i # j => res[i].id # res[j].id

\* `res` is the `limit` most recent rows of `matching`, most recent first
MostRecentFirst(res, matching, limit) ==
    /\ Len(res) = SmallerOf(limit, Cardinality(matching))
    /\ SameRows(res, matching)
    /\ \A i, j \in 1..Len(res) :
           i < j => res[i].slack_timestamp >= res[j].slack_timestamp
    /\ \A r \in matching :
           (\A i \in 1..Len(res) : res[i] # r) =>
               \A i \in 1..Len(res) :
                   r.slack_timestamp <= res[i].slack_timestamp

\* the list call whose result `ret` holds
Listed(op) == ret.op = op /\ ret.exc = "none" /\ call[ret.s].op = op
ListArgs == call[ret.s]

\* C14: get_messages_by_user and get_messages_by_channel return rows of the
\* given user_id, or channel_id, only, by descending slack_timestamp, the
\* `limit` most recent of them when there are more, each once, and a
\* soft-deleted row only with include_deleted
C14_ListsMostRecent ==
    /\ Listed("get_messages_by_user") =>
           MostRecentFirst(ret.val,
                           {r \in VisibleMessages(ret.s) :
                               /\ r.user_id = ListArgs.key
                               /\ ListArgs.include_deleted \/ ~r.is_deleted},
                           ListArgs.limit)
    /\ Listed("get_messages_by_channel") =>
           MostRecentFirst(ret.val,
                           {r \in VisibleMessages(ret.s) :
                               /\ r.channel_id = ListArgs.key
                               /\ ListArgs.include_deleted \/ ~r.is_deleted},
                           ListArgs.limit)

\* a list by user, cut to one row, holds the most recent live row of that
\* user: it left out an older live row and a soft-deleted one that is not
\* older
C14_Witness ==
    /\ Listed("get_messages_by_user")
    /\ ListArgs.limit = 1 /\ ~ListArgs.include_deleted
    /\ Len(ret.val) = 1
    /\ \E r \in slack_messages :
           /\ r.user_id = ret.val[1].user_id /\ ~r.is_deleted
           /\ r.slack_timestamp < ret.val[1].slack_timestamp
    /\ \E r \in slack_messages :
           /\ r.user_id = ret.val[1].user_id /\ r.is_deleted
           /\ r.slack_timestamp >= ret.val[1].slack_timestamp

\* a list by channel with include_deleted holds a soft-deleted row
C14_WitnessDeleted ==
    /\ Listed("get_messages_by_channel") /\ ListArgs.include_deleted
    /\ \E i \in 1..Len(ret.val) : ret.val[i].is_deleted

\* the rows of `rows` that pass the filters that are given, None being the
\* only value that gives none
Filtered(rows, user_id, channel_id, include_deleted) ==
    {r \in rows :
        /\ user_id # None => r.user_id = user_id
        /\ channel_id # None => r.channel_id = channel_id
        /\ include_deleted \/ ~r.is_deleted}

\* C15, as the claim states it: get_message_count returns the number of
\* rows whose user_id and channel_id equal the filters that are supplied,
\* the empty string included, without soft-deleted rows unless
\* include_deleted
C15_CountMatchesFilters ==
    [][\A s \in Scopes, u \in UserFilters, c \in ChannelFilters, d \in BOOLEAN :
          get_message_count(s, u, c, d) =>
              ret'.val = Cardinality(Filtered(VisibleMessages(s), u, c, d))]_vars

\* what the code does: a filter that is None or the empty string is not
\* applied
C15_CountIgnoresEmptyFilters ==
    [][\A s \in Scopes, u \in UserFilters, c \in ChannelFilters, d \in BOOLEAN :
          get_message_count(s, u, c, d) =>
              ret'.val = Cardinality(Filtered(VisibleMessages(s),
                                              IF u = "" THEN None ELSE u,
                                              IF c = "" THEN None ELSE c, d))]_vars

\* a count filtered by the empty-string user counted a row of another user
C15_Witness ==
    /\ ret.op = "get_message_count" /\ ret.val = MaxStored
    /\ \E r \in slack_messages : r.user_id = ""
    /\ \E r \in slack_messages : r.user_id = "U1"

Found(val, matching) ==
    /\ matching = {} => val = NoRow
    /\ \A r \in matching : val = r

\* C17: get_slack_message_by_id, get_slack_message_by_slack_id,
\* get_user_context and get_conversation_thread, in a session whose
\* transaction is active, raise nothing and return None for a key that no
\* row has, and the row that has the key, soft-deleted or not
C17_LookupsReturnRowOrNone ==
    [][\A s \in Scopes :
          /\ \A id \in StoredIds :
                 get_slack_message_by_id(s, id) =>
                     /\ ret'.exc = "none" /\ UNCHANGED <<pc, exc>>
                     /\ Found(ret'.val, {r \in VisibleMessages(s) : r.id = id})
          /\ \A id \in StoredIds :
                 get_slack_message_by_slack_id(s, SlackIds[id]) =>
                     /\ ret'.exc = "none" /\ UNCHANGED <<pc, exc>>
                     /\ Found(ret'.val, {r \in VisibleMessages(s) :
                                            r.slack_message_id = SlackIds[id]})
          /\ \A u \in Users :
                 get_user_context(s, u) =>
                     /\ ret'.exc = "none" /\ UNCHANGED <<pc, exc>>
                     /\ Found(ret'.val, {r \in VisibleContexts(s) :
                                            r.user_id = u})
          /\ \A ts \in ThreadKeys :
                 get_conversation_thread(s, ts) =>
                     /\ ret'.exc = "none" /\ UNCHANGED <<pc, exc>>
                     /\ Found(ret'.val, {r \in VisibleThreads(s) :
                                            r.thread_ts = ts})]_vars

\* a lookup by internal id returned a soft-deleted message
C17_Witness ==
    /\ ret.op = "get_slack_message_by_id" /\ ret.exc = "none"
    /\ ret.val # NoRow /\ ret.val.is_deleted

\* a lookup by an external id that no row has returned None
C17_WitnessAbsent ==
    /\ ret.op = "get_slack_message_by_slack_id" /\ ret.exc = "none"
    /\ ret.val = NoRow /\ pc[ret.s] = "body"


\* ids of the rows of the batch that scope s gave to bulk_create_messages
BatchIds(s) ==
    {call[s].first_id + i - 1 : i \in 1..Len(call[s].messages)}

\* a batch whose keys are distinct and in no row the session sees
FreshBatch(s, exts) ==
    /\ \A i, j \in 1..Len(exts) : exts[i] = exts[j] => i = j
    /\ \A i \in 1..Len(exts), r \in VisibleMessages(s) :
           r.slack_message_id # exts[i]

C16_BatchStep ==
    \A s \in Scopes, exts \in Batches :
        bulk_create_messages(s, exts, "C1", "U1", 1) =>
            IF FreshBatch(s, exts)
            THEN /\ ret' = Returned(s, "bulk_create_messages", Len(exts),
                                    "INSERT")
                 /\ Cardinality(VisibleMessages(s)') =
                        Cardinality(VisibleMessages(s)) + Len(exts)
                 /\ VisibleMessages(s) \subseteq VisibleMessages(s)'
                 /\ \A i \in 1..Len(exts) :
                        \E r \in VisibleMessages(s)' \ VisibleMessages(s) :
                            r.slack_message_id = exts[i]
                 /\ pc'[s] = "body"
            ELSE /\ ret' = Raised(s, "bulk_create_messages", "IntegrityError",
                                  "INSERT")
                 /\ pc'[s] = "raising" /\ exc'[s] = "IntegrityError"
                 /\ pending'[s] = NoPending
                 /\ slack_messages' = slack_messages

C16_FailedBatchNotStored ==
    \A s \in Scopes :
        (call[s].op = "bulk_create_messages" /\ call[s].raised # "none") =>
            /\ BatchIds(s) \cap Ids(slack_messages) = {}
            /\ BatchIds(s) \cap Ids(pending[s].msgs) = {}

\* C16: bulk_create_messages with n records whose external ids are distinct
\* and in no stored row adds exactly n message rows and returns n; a batch
\* with a duplicate external id, inside it or against a stored row, makes
\* the call raise, and no row of that batch is stored then or after the
\* transaction has ended.
C16_BulkAllOrNothing == []C16_FailedBatchNotStored /\ [][C16_BatchStep]_vars

\* a batch of two fresh keys was added and committed
C16_Witness ==
    \E s \in Scopes :
        /\ call[s].op = "bulk_create_messages" /\ call[s].raised = "none"
        /\ Len(call[s].messages) = 2
        /\ pc[s] = "exited"
        /\ BatchIds(s) \subseteq Ids(slack_messages)

\* a batch of one fresh key and one stored key failed, and its scope ended
C16_WitnessFailed ==
    \E s \in Scopes :
        /\ call[s].op = "bulk_create_messages"
        /\ call[s].raised = "IntegrityError"
        /\ Len(call[s].messages) = 2
        /\ call[s].messages[1] # call[s].messages[2]
        /\ \E i \in 1..2 : ~KeyTaken(slack_messages, call[s].messages[i])
        /\ \E i \in 1..2 : KeyTaken(slack_messages, call[s].messages[i])
        /\ pc[s] = "exited"

\* a batch that holds one key twice failed
C16_WitnessInside ==
    \E s \in Scopes :
        /\ call[s].op = "bulk_create_messages"
        /\ call[s].raised = "IntegrityError"
        /\ Len(call[s].messages) = 2
        /\ call[s].messages[1] = call[s].messages[2]
        /\ slack_messages = {}
        /\ pc[s] = "exited"

UniqueKeys(rows) ==
    \A r1, r2 \in rows : r1.slack_message_id = r2.slack_message_id => r1 = r2

C18_UniqueExternalIds ==
    /\ UniqueKeys(slack_messages)
    /\ \A s \in Scopes : UniqueKeys(VisibleMessages(s))

\* the session sees a soft-deleted row with this key
DeletedKey(s, ext) ==
    \E r \in VisibleMessages(s) : r.slack_message_id = ext /\ r.is_deleted

C18_DeletedKeyRaises ==
    \A s \in Scopes :
        /\ \A ext \in ExtIds :
              (create_slack_message(s, ext, "C1", "U1", 1, NoVec)
                   /\ DeletedKey(s, ext)) =>
                  /\ ret' = Raised(s, "create_slack_message",
                                   "IntegrityError", "INSERT")
                  /\ slack_messages' = slack_messages
                  /\ pending'[s] = NoPending
        /\ \A exts \in Batches :
              (bulk_create_messages(s, exts, "C1", "U1", 1)
                   /\ \E i \in 1..Len(exts) : DeletedKey(s, exts[i])) =>
                  /\ ret' = Raised(s, "bulk_create_messages",
                                   "IntegrityError", "INSERT")
                  /\ slack_messages' = slack_messages
                  /\ pending'[s] = NoPending

\* C18: in every reachable store no two message rows share a
\* slack_message_id, soft-deleted rows included; create_slack_message or
\* bulk_create_messages with the slack_message_id of a soft-deleted message
\* raises IntegrityError and adds no row.
C18_ExternalIdUnique ==
    []C18_UniqueExternalIds /\ [][C18_DeletedKeyRaises]_vars

\* create_slack_message raised on the key of the one stored row, which is
\* soft-deleted: ids 1 (the row) and 2 (the refused INSERT) are drawn
C18_Witness ==
    \E s \in Scopes :
        /\ ret = Raised(s, "create_slack_message", "IntegrityError", "INSERT")
        /\ pc[s] = "raising"
        /\ next_uuid = 3
        /\ \E r \in slack_messages : slack_messages = {r} /\ r.is_deleted
                                                          /\ r.id = 1

\* bulk_create_messages raised on a batch of the key of the one stored row,
\* which is soft-deleted
C18_WitnessBulk ==
    \E s \in Scopes :
        /\ ret = Raised(s, "bulk_create_messages", "IntegrityError", "INSERT")
        /\ pc[s] = "raising"
        /\ Len(call[s].messages) = 1
        /\ call[s].first_id = 2
        /\ \E r \in slack_messages :
              /\ slack_messages = {r} /\ r.is_deleted /\ r.id = 1
              /\ r.slack_message_id = call[s].messages[1]

\* every scope whose flow was cancelled has committed nothing
C21_CancelledScopeCommitsNothing ==
    \A s \in Scopes : exc[s] = "CancelledError" => commits[s] = 0

\* a scope cancelled at an await of its body, or at the rollback or the
\* close that follow a fault, has committed nothing and keeps nothing staged
\* once it has exited
C21_CancelledBeforeCommit ==
    \A s \in Scopes :
        (exc[s] = "CancelledError" /\ pc[s] = "exited"
             /\ body_exc[s] # "none") =>
            commits[s] = 0 /\ pending[s] = NoPending /\ ~is_open[s]

\* a step that changes the committed tables stores all that one scope had
\* staged, and that scope keeps nothing staged
C21_NoPartialCommit ==
    dbVars' # dbVars =>
        \E s \in Scopes :
            /\ pc[s] = "commit"
            /\ slack_messages' = Overlay(slack_messages, pending[s].msgs)
            /\ user_contexts' = Overlay(user_contexts, pending[s].ctxs)
            /\ conversation_threads' =
                   Overlay(conversation_threads, pending[s].thrs)
            /\ pending'[s] = NoPending

\* C21: a get_session scope that is cancelled at an await of its body (or of
\* the rollback or close after a fault) commits none of the changes staged
\* in it; a scope cancelled while its commit is awaited has stored all of
\* its changes or none; no step stores part of a scope's changes.
C21_CancellationAllOrNothing ==
    []C21_CancelledBeforeCommit /\ [][C21_NoPartialCommit]_vars

\* a scope that had staged the first message was cancelled in its body and
\* has exited; the message is not stored
C21_Witness ==
    \E s \in Scopes :
        /\ pc[s] = "exited" /\ exc[s] = "CancelledError"
        /\ body_exc[s] = "CancelledError"
        /\ ret = Returned(s, "create_slack_message",
                          NewMessage(1, "m1", "C1", "U1", 1, NoVec), "INSERT")
        /\ slack_messages = {}

\* a scope cancelled while its commit was awaited has its two messages stored
C21_WitnessCommitApplied ==
    \E s \in Scopes :
        /\ exc[s] = "CancelledError" /\ body_exc[s] = "none"
        /\ commits[s] = 1
        /\ Cardinality(slack_messages) = 2
        /\ \A t \in Scopes \ {s} : pc[t] = "init"

OneThreadPerTs(rows) ==
    \A r1, r2 \in rows : r1.thread_ts = r2.thread_ts => r1 = r2

C22_OneRowPerThread ==
    /\ OneThreadPerTs(conversation_threads)
    /\ \A s \in Scopes : OneThreadPerTs(VisibleThreads(s))

C22_Create ==
    \A s \in Scopes, ts \in ThreadTimestamps :
        create_conversation_thread(s, ts, "C1") =>
            IF ThreadByTs(VisibleThreads(s), ts) = NoRow
            THEN /\ ret'.exc = "none"
                 /\ ret'.val.message_count = 0
                 /\ ret'.val.started_at = clock /\ ret'.val.started_at # 0
                 /\ ret'.val.thread_ts = ts
                 /\ ThreadByTs(VisibleThreads(s)', ts) = ret'.val
            ELSE /\ ret' = Raised(s, "create_conversation_thread",
                                  "IntegrityError", "INSERT")
                 /\ conversation_threads' = conversation_threads

C22_UpdateFound ==
    \A s \in Scopes :
        update_thread_activity_flush(s) =>
            LET thread_ts == call[s].thread_ts
                n == call[s].increment_messages
                before == ThreadByTs(VisibleThreads(s), thread_ts)
                after == ThreadByTs(VisibleThreads(s)', thread_ts)
            IN  /\ before # NoRow
                /\ after = [before EXCEPT
                               !.message_count = before.message_count + n,
                               !.last_activity_at = clock]
                /\ ret' = Returned(s, "update_thread_activity", after,
                                   "UPDATE")
                /\ VisibleThreads(s)' \ {after} = VisibleThreads(s) \ {before}

C22_UpdateNotFound ==
    \A s \in Scopes, ts \in ThreadTimestamps, n \in ThreadIncrements :
        (update_thread_activity_get(s, ts, n)
             /\ ThreadByTs(VisibleThreads(s), ts) = NoRow) =>
            /\ ret' = Returned(s, "update_thread_activity", NoRow, "SELECT")
            /\ pending' = pending /\ dbVars' = dbVars

\* C22: create_conversation_thread gives a thread with message_count 0 and
\* started_at set; a second creation with the same thread_ts raises, so no
\* table holds two rows with one thread_ts; update_thread_activity on a
\* stored thread adds its increment to message_count and sets
\* last_activity_at to the current time, so the increments of one flow add
\* up; on a thread_ts with no row it returns None and changes nothing.
C22_ThreadLifecycle ==
    /\ []C22_OneRowPerThread
    /\ [][C22_Create /\ C22_UpdateFound /\ C22_UpdateNotFound]_vars

\* one flow created a thread and updated it by 1 and by 3, and committed
C22_Witness ==
    \E s \in Scopes, r \in conversation_threads :
        /\ pc[s] = "exited" /\ commits[s] = 1
        /\ r.message_count = 4 /\ r.last_activity_at > r.started_at
        /\ next_uuid = 3

\* a second creation with the thread_ts of a stored thread raised
C22_WitnessDuplicate ==
    \E s \in Scopes :
        /\ ret = Raised(s, "create_conversation_thread", "IntegrityError",
                        "INSERT")
        /\ conversation_threads # {}

\* an update of a thread_ts with no row returned None beside a stored thread
C22_WitnessNotFound ==
    \E s \in Scopes :
        /\ ret = Returned(s, "update_thread_activity", NoRow, "SELECT")
        /\ conversation_threads # {}

\* the message rows of `rows` other than the one with this id
OtherMessages(rows, id) == {r \in rows : r.id # id}

C23_WitnessFalse ==
    \E s \in Scopes :
        /\ ret = Returned(s, "soft_delete_message", FALSE, "UPDATE")
        /\ slack_messages # {} /\ pending[s] = NoPending

C24_WitnessNotFound ==
    \E s \in Scopes :
        /\ ret = Returned(s, "update_message_embedding", NoRow, "UPDATE")
        /\ slack_messages # {} /\ pending[s] = NoPending

\* C25: `async with get_session() as session` with the module-level
\* get_session gives what db_manager.get_session() gives: a flow that has
\* left such a statement had a session, which is closed, and has committed
\* or has rolled back and re-raised the fault of its body.
C25_ConvenienceGivesScope ==
    \A s \in Scopes :
        (call[s].op = "get_session" /\ pc[s] = "exited") =>
            /\ bind[s].engine # 0
            /\ ~is_open[s]
            /\ commits[s] = 1 \/ exc[s] = body_exc[s]

\* what the code does: the statement raises TypeError, no session is made,
\* no body runs and nothing is committed
C25_ConvenienceRaisesTypeError ==
    \A s \in Scopes :
        call[s].op = "get_session" =>
            /\ pc[s] = "exited" /\ exc[s] = "TypeError"
            /\ bind[s] = NoBind /\ commits[s] = 0 /\ body_exc[s] = "none"

\* one flow has used the module-level function, beside one that committed a
\* message in a scope of db_manager.get_session()
C25_Witness ==
    \E s, t \in Scopes :
        /\ call[s].op = "get_session" /\ pc[s] = "exited"
        /\ pc[t] = "exited" /\ commits[t] = 1 /\ slack_messages # {}

\* ids of all that scope s has staged and not committed
StagedIds(s) ==
    Ids(pending[s].msgs) \cup Ids(pending[s].ctxs) \cup Ids(pending[s].thrs)

\* scope s is inside its body before and after the step
InBody(s) ==
    /\ pc[s] \in {"body", "in_call"}
    /\ pc'[s] \in {"body", "in_call"}

\* a call of scope s raised in this step
CallRaised(s) == pc[s] \in {"body", "in_call"} /\ pc'[s] = "raising"

\* the committed tables change only in the commit of a scope's exit
C26_OnlyCommitStores ==
    dbVars' # dbVars => \E s \in Scopes : pc[s] = "commit" /\ pc'[s] = "finally"

\* a step inside the body leaves the session open, its transaction as it
\* was and all it had staged in place
C26_ReturnKeepsSession ==
    \A s \in Scopes :
        InBody(s) =>
            /\ is_open'[s] = is_open[s] /\ tx'[s] = tx[s]
            /\ commits'[s] = commits[s]
            /\ StagedIds(s) \subseteq StagedIds(s)'

\* what a writing call returns is what the session sees afterwards
C26_ChangeVisibleInSession ==
    \A s \in Scopes :
        (/\ ret' # ret /\ ret'.s = s
         /\ ret'.exc = "none" /\ ret'.sql \in {"INSERT", "UPDATE"}) =>
            CASE ret'.op \in {"create_slack_message",
                              "update_message_embedding"} ->
                     ret'.val \in VisibleMessages(s)'
              [] ret'.op = "bulk_create_messages" ->
                     Cardinality(VisibleMessages(s)' \ VisibleMessages(s))
                         = ret'.val
              [] ret'.op = "soft_delete_message" ->
                     ret'.val = TRUE /\
                     \E r \in VisibleMessages(s)' :
                         r.is_deleted /\ r.id \in Ids(pending'[s].msgs)
              [] ret'.op = "create_user_context" ->
                     ret'.val \in VisibleContexts(s)'
              [] ret'.op \in {"create_conversation_thread",
                              "update_thread_activity"} ->
                     ret'.val \in VisibleThreads(s)'
              [] OTHER -> FALSE

\* a call that raises does not discard what the scope had staged
C26_RaiseKeepsSession ==
    \A s \in Scopes :
        CallRaised(s) => tx'[s] = tx[s] /\ StagedIds(s) \subseteq StagedIds(s)'

\* a rollback or close of the scope discards what it had staged and stores
\* nothing
C26_RollbackDiscards ==
    \A s \in Scopes :
        (pc[s] \in {"except", "finally"} /\ pc'[s] # pc[s]) =>
            /\ dbVars' = dbVars
            /\ pc[s] = "except" => pending'[s] = NoPending
            /\ pc'[s] = "exited" => pending'[s] = NoPending

\* a row version that one scope has staged is seen by no other scope
C26_UncommittedUnseen ==
    \A s \in Scopes : \A t \in Scopes \ {s} :
        /\ (pending[s].msgs \ slack_messages) \cap VisibleMessages(t) = {}
        /\ (pending[s].ctxs \ user_contexts) \cap VisibleContexts(t) = {}
        /\ (pending[s].thrs \ conversation_threads) \cap VisibleThreads(t) = {}

\* the statement as it stands: no call, returning or raising, commits, rolls
\* back or closes the session
C26_NoCallRollsBack ==
    [][C26_OnlyCommitStores /\ C26_ReturnKeepsSession
           /\ C26_RaiseKeepsSession]_vars

\* C26: no operation commits or closes the caller's session, and one that
\* returns does not roll it back: the change of a create, update,
\* soft-delete or bulk call that returned is seen by the same session, is
\* seen by no other session before the scope commits, and is discarded by a
\* rollback of the scope.
C26_StagesAndFlushesOnly ==
    /\ []C26_UncommittedUnseen
    /\ [][C26_OnlyCommitStores /\ C26_ReturnKeepsSession
              /\ C26_ChangeVisibleInSession /\ C26_RollbackDiscards]_vars

\* one scope has created a batch of two messages and not committed: it
\* sees them, and another scope that is in its body sees none
C26_Witness ==
    \E s \in Scopes : \E t \in Scopes \ {s} :
        /\ ret = Returned(s, "bulk_create_messages", 2, "INSERT")
        /\ pc[s] = "body" /\ pc[t] = "body"
        /\ Cardinality(VisibleMessages(s)) = 2
        /\ VisibleMessages(t) = {}

\* a scope that had updated a stored thread raised and was rolled back: the
\* thread is stored as it was
C26_WitnessRolledBack ==
    \E s \in Scopes :
        /\ pc[s] = "exited" /\ body_exc[s] = "RuntimeError"
        /\ ret = Returned(s, "update_thread_activity",
                          [NewThread(ret.val.id, 1, "C1", 1)
                               EXCEPT !.message_count = 3,
                                      !.last_activity_at = 1], "UPDATE")
        /\ NewThread(ret.val.id, 1, "C1", 1) \in conversation_threads

\* the rows of `after` keep every id of `before`
KeepsIds(before, after) == Ids(before) \subseteq Ids(after)

\* every soft-deleted row of `before` is soft-deleted in `after`
KeepsDeleted(before, after) ==
    \A r \in before, r2 \in after :
        (r.id = r2.id /\ r.is_deleted) => r2.is_deleted

\* C27: no step removes a committed message, user-context or thread row,
\* and none clears is_deleted of a committed message: the stored rows only
\* grow and a deletion flag only goes from false to true.
C27_RowsOnlyGrow ==
    [][/\ KeepsIds(slack_messages, slack_messages')
       /\ KeepsIds(user_contexts, user_contexts')
       /\ KeepsIds(conversation_threads, conversation_threads')
       /\ KeepsDeleted(slack_messages, slack_messages')]_vars

\* the embedding of a soft-deleted message was set and committed: the
\* stored row is still soft-deleted
C27_Witness ==
    \E s \in Scopes, r \in slack_messages :
        /\ ret = Returned(s, "update_message_embedding", r, "UPDATE")
        /\ r.is_deleted /\ r.embedding = <<3, 4>>
        /\ commits[s] = 1

\* the context with this id as scope s sees it
SeenContext(s, id) == CHOOSE r \in VisibleContexts(s) : r.id = id

\* the UPDATE of update_user_context_stats adds the increment to the total
\* that is stored when it is written
C28_StatsAddToStored ==
    \A s \in Scopes :
        update_user_context_stats_flush(s) =>
            ret'.val.total_messages
                = SeenContext(s, call[s].context.id).total_messages
                      + call[s].increment_messages

\* the UPDATE of update_thread_activity adds the increment to the count
\* that is stored when it is written
C28_ActivityAddsToStored ==
    \A s \in Scopes :
        update_thread_activity_flush(s) =>
            ret'.val.message_count
                = ThreadByTs(VisibleThreads(s), call[s].thread_ts).message_count
                      + call[s].increment_messages

\* C28: when two sessions update the statistics of one user (the activity
\* of one thread) concurrently and both commit, every increment is added to
\* the value stored at the time of its write, so the stored total grows by
\* the sum of the increments in every interleaving.
C28_NoLostUpdate ==
    [][C28_StatsAddToStored /\ C28_ActivityAddsToStored]_vars

\* what the code does: each UPDATE writes the value its own SELECT read,
\* plus the increment
C28_WritesReadPlusIncrement ==
    [][/\ \A s \in Scopes :
             update_user_context_stats_flush(s) =>
                 ret'.val.total_messages
                     = call[s].context.total_messages
                           + call[s].increment_messages
       /\ \A s \in Scopes :
             update_thread_activity_flush(s) =>
                 ret'.val.message_count
                     = call[s].thread.message_count
                           + call[s].increment_messages]_vars

\* every context row, committed or staged
AllContexts == user_contexts \cup UNION {pending[s].ctxs : s \in Scopes}

\* C29: whenever first_message_at and last_message_at of a context are both
\* set, first_message_at <= last_message_at, the clock being read at each
\* assignment and never going back.
C29_FirstNotAfterLast ==
    \A r \in AllContexts :
        (r.first_message_at # 0 /\ r.last_message_at # 0) =>
            r.first_message_at <= r.last_message_at

\* what the code does: last_message_at is assigned before first_message_at,
\* so the first update of a context gives first_message_at >= last_message_at
\* and a later update restores the order only if the clock has moved on
C29_FirstSetWithLast ==
    \A r \in AllContexts :
        r.first_message_at # 0 <=> r.last_message_at # 0

\* the commit of the scope's exit failed and the except clause is left
CommitFaultHandled(s) ==
    pc[s] = "except" /\ exc[s] = "CommitFailed" /\ pc'[s] # "except"

\* C30: when the commit at the normal exit of a get_session scope fails,
\* the transaction is rolled back, the commit's fault goes to the caller,
\* the session is closed and none of the scope's changes are stored; no
\* successful commit is followed by a rollback of the same scope.
C30_CommitFaultPropagates ==
    /\ [](\A s \in Scopes : pc[s] = "except" => commits[s] = 0)
    /\ [][\A s \in Scopes :
              CommitFaultHandled(s) =>
                  /\ exc'[s] = "CommitFailed"
                  /\ pending'[s] = NoPending /\ tx'[s] = "active"
                  /\ dbVars' = dbVars]_vars

\* what the code does: nothing of the scope is stored, the session is
\* closed, and the caller gets the commit's fault or, when the rollback
\* raises too, the rollback's
C30_CommitFaultStoresNothing ==
    /\ [](\A s \in Scopes :
             /\ pc[s] = "except" => commits[s] = 0
             /\ (pc[s] = "exited" /\ exc[s] # "none") =>
                    /\ commits[s] = 0 /\ ~is_open[s] /\ pending[s] = NoPending
                    /\ exc[s] \in {"CommitFailed", "RollbackFailed"})
    /\ [][\A s \in Scopes :
              CommitFaultHandled(s) =>
                  /\ exc'[s] \in {"CommitFailed", "RollbackFailed"}
                  /\ pending'[s] = NoPending
                  /\ dbVars' = dbVars]_vars

====
